---- MODULE Spec2Model ----
(***************************************************************************)
(* Enterprise Data Ingestion System: the inspection pipeline               *)
(* (modules/security.py), the staging loop, the merge/export               *)
(* (ui/dashboard.py) and the transformation engine (modules/processor.py). *)
(*                                                                         *)
(* Bytes and characters are one-character strings; a file name is a        *)
(* sequence of characters.  File content is a run-length encoded byte      *)
(* sequence (a sequence of runs [b |-> byte, n |-> count]), so that the    *)
(* program's real sizes (4096-byte hash blocks, the 1024-byte header,      *)
(* 2 MiB scan chunks, the 200 MiB limit) are used unscaled.                *)
(***************************************************************************)
EXTENDS Integers, Sequences, FiniteSets, TLC

Min(a, b) == IF a < b THEN a ELSE b

(***************************************************************************)
(* Characters, str.lower() and the double-extension regular expression.    *)
(***************************************************************************)
UpperCase ==
    <<"A","B","C","D","E","F","G","H","I","J","K","L","M","N","O","P","Q","R",
      "S","T","U","V","W","X","Y","Z">>
LowerCase ==
    <<"a","b","c","d","e","f","g","h","i","j","k","l","m","n","o","p","q","r",
      "s","t","u","v","w","x","y","z">>
Digits == {"0","1","2","3","4","5","6","7","8","9"}

lower_char(ch) ==
    IF \E k \in 1..26 : UpperCase[k] = ch
    THEN LowerCase[CHOOSE k \in 1..26 : UpperCase[k] = ch]
    ELSE ch

\* a name compared as it was given
lower_not_applied(s) == s

\* str.lower() of security.py line 79
lower(s) == [k \in 1..Len(s) |-> lower_char(s[k])]

\* the character class [a-z0-9] of the pattern
AlnumLower == {LowerCase[k] : k \in 1..26} \cup Digits

\* the alternation (exe|bat|sh|bin|dll|ps1) of the pattern
EXEC_EXTENSIONS ==
    { <<"e","x","e">>, <<"b","a","t">>, <<"s","h">>, <<"b","i","n">>,
      <<"d","l","l">>, <<"p","s","1">> }

\* \.[a-z0-9]{2,4}\.(exe|bat|sh|bin|dll|ps1) matched so that it ends at index e
MatchEndingAt(s, e) ==
    \E ext \in EXEC_EXTENSIONS, m \in 2..4 :
        LET start == e - Len(ext) - m - 1
        IN  /\ start >= 1
            /\ s[start] = "."
            /\ \A k \in 1..m : s[start + k] \in AlnumLower
            /\ s[start + m + 1] = "."
            /\ SubSeq(s, start + m + 2, e) = ext

\* re.search(r"\.[a-z0-9]{2,4}\.(exe|bat|sh|bin|dll|ps1)$", filename):
\* "$" matches at the end of the string and just before a final newline.
double_extension(s) ==
    \/ MatchEndingAt(s, Len(s))
    \/ (Len(s) >= 1 /\ s[Len(s)] = "\n" /\ MatchEndingAt(s, Len(s) - 1))

(***************************************************************************)
(* Byte strings and the stream primitives.  A byte string is a sequence of *)
(* segments: a literal [lit |-> TRUE, bytes |-> <<b1, .., bn>>, n |-> n]   *)
(* or a run [lit |-> FALSE, bytes |-> <<b>>, n |-> count] of one byte.     *)
(***************************************************************************)
Lit(s) == IF s = <<>> THEN <<>> ELSE << [lit |-> TRUE, bytes |-> s, n |-> Len(s)] >>
Fill(b, n) == IF n <= 0 THEN <<>> ELSE << [lit |-> FALSE, bytes |-> <<b>>, n |-> n] >>

RECURSIVE CLen(_)
CLen(c) == IF c = <<>> THEN 0 ELSE Head(c).n + CLen(Tail(c))

\* the first k bytes of one segment (0 < k < seg.n)
SegTake(seg, k) ==
    IF seg.lit THEN Lit(SubSeq(seg.bytes, 1, k)) ELSE Fill(seg.bytes[1], k)

\* one segment without its first k bytes (0 < k < seg.n)
SegDrop(seg, k) ==
    IF seg.lit THEN Lit(SubSeq(seg.bytes, k + 1, seg.n))
    ELSE Fill(seg.bytes[1], seg.n - k)

\* the first k bytes of c
RECURSIVE Take(_, _)
Take(c, k) ==
    IF c = <<>> \/ k <= 0 THEN <<>>
    ELSE IF Head(c).n <= k THEN <<Head(c)>> \o Take(Tail(c), k - Head(c).n)
    ELSE SegTake(Head(c), k)

\* c without its first k bytes
RECURSIVE Drop(_, _)
Drop(c, k) ==
    IF c = <<>> \/ k <= 0 THEN c
    ELSE IF Head(c).n <= k THEN Drop(Tail(c), k - Head(c).n)
    ELSE SegDrop(Head(c), k) \o Tail(c)

\* stream.read(k) at position p: the bytes returned (the position advances
\* by their count)
read(c, p, k) == Take(Drop(c, p), k)

\* concatenation that keeps the representation canonical: two literals, or
\* two runs of the same byte, that meet are merged
Join(x, y) ==
    IF x = <<>> THEN y
    ELSE IF y = <<>> THEN x
    ELSE LET l == x[Len(x)]
             r == y[1]
         IN  IF l.lit /\ r.lit
             THEN SubSeq(x, 1, Len(x) - 1) \o Lit(l.bytes \o r.bytes) \o Tail(y)
             ELSE IF ~l.lit /\ ~r.lit /\ l.bytes = r.bytes
             THEN SubSeq(x, 1, Len(x) - 1) \o Fill(l.bytes[1], l.n + r.n) \o Tail(y)
             ELSE x \o y

\* the bytes of c, every run cut to at most cap bytes: a byte string of
\* length <= cap occurs in (is a prefix of) c iff it occurs in (is a prefix
\* of) Expand(c, cap)
RECURSIVE Expand(_, _)
Expand(c, cap) ==
    IF c = <<>> THEN <<>>
    ELSE (IF Head(c).lit THEN Head(c).bytes
          ELSE [k \in 1..Min(Head(c).n, cap) |-> Head(c).bytes[1]])
         \o Expand(Tail(c), cap)

\* an equality test in place of the prefix test
startswith_equal(c, prefix) == Expand(c, Len(prefix) + 1) = prefix

\* bytes.startswith(prefix)
startswith(c, prefix) ==
    LET s == Expand(c, Len(prefix))
    IN  Len(s) >= Len(prefix) /\ SubSeq(s, 1, Len(prefix)) = prefix

\* "pattern in chunk" (plain substring test on bytes)
contains(pattern, chunk) ==
    LET s == Expand(chunk, Len(pattern))
    IN  \E k \in 0..(Len(s) - Len(pattern)) :
            SubSeq(s, k + 1, k + Len(pattern)) = pattern

(***************************************************************************)
(* SecurityInspector: constants, signatures, hashing.                      *)
(***************************************************************************)
\* the literals are raw bytes: the backslash of rb"os\.system" is part of
\* the signature, since the scan is a substring test and not a regex
THREAT_SIGNATURES ==
    <<
    <<"<","s","c","r","i","p","t">>,
    <<"j","a","v","a","s","c","r","i","p","t",":">>,
    <<"v","b","s","c","r","i","p","t",":">>,
    <<"o","n","l","o","a","d","=">>,
    <<"o","n","e","r","r","o","r","=">>,
    <<"D","R","O","P"," ","T","A","B","L","E">>,
    <<"U","N","I","O","N"," ","S","E","L","E","C","T">>,
    <<"o","s","\\",".","s","y","s","t","e","m">>,
    <<"s","u","b","p","r","o","c","e","s","s","\\",".","P","o","p","e","n">>,
    <<"c","m","d","\\",".","e","x","e">>,
    <<"/","b","i","n","/","s","h">>,
    <<"/","b","i","n","/","b","a","s","h">>,
    <<"p","o","w","e","r","s","h","e","l","l">>,
    <<"b","i","t","s","a","d","m","i","n">>
    >>

HASH_BLOCK == 4096
HEADER_SIZE == 1024
\* a limit of 200 decimal megabytes
MAX_SIZE_decimal == 200 * 1000 * 1000
MAX_SIZE == 200 * 1024 * 1024
chunk_size == 1024 * 1024 * 2

MZ == <<"M","Z">>
\* the byte 0x7F is written "DEL"
ELF == <<"DEL","E","L","F">>

\* the default file_hash="N/A" of log_event: no digest
NA == [na |-> TRUE, sha256 |-> <<>>]

\* the SHA-256 digest, modelled as collision free: it identifies the byte
\* string fed to it
sha256(data) == [na |-> FALSE, sha256 |-> data]

\* number of read(4096) calls of the loop of calculate_hash from position p
\* that return data: each call returns the next 4096 bytes (fewer at the
\* end), and the loop ends on the first call that returns b""
BlocksFrom(c, p) ==
    LET left == CLen(c) - p
    IN  IF left <= 0 THEN 0 ELSE (left + HASH_BLOCK - 1) \div HASH_BLOCK

\* the bytes fed to sha256.update by the calls lo..hi (numbered from 0) of
\* a loop started at position p
RECURSIVE Updates(_, _, _, _)
Updates(c, p, lo, hi) ==
    IF lo > hi THEN <<>>
    ELSE IF lo = hi THEN read(c, p + lo * HASH_BLOCK, HASH_BLOCK)
    ELSE LET mid == (lo + hi) \div 2
         IN  Join(Updates(c, p, lo, mid), Updates(c, p, mid + 1, hi))

\* the loop of calculate_hash run from position p
HashLoop(c, p) ==
    [data |-> Updates(c, p, 0, BlocksFrom(c, p) - 1),
     reads |-> BlocksFrom(c, p) + 1]

\* a hashing that starts at the position the stream was handed over with
calculate_hash_noseek(c, p) ==
    LET r == HashLoop(c, p)
    IN  [hexdigest |-> sha256(r.data), reads |-> r.reads, seeks |-> 1, pos |-> 0]

\* calculate_hash(file_stream) on a stream over content c at position p:
\* seek(0), hash block by block, seek(0)
calculate_hash(c, p) ==
    LET r == HashLoop(c, 0)
    IN  [hexdigest |-> sha256(r.data), reads |-> r.reads, seeks |-> 2, pos |-> 0]

\* index of the first signature of the list that occurs in the chunk, 0 if none
first_signature(chunk) ==
    IF \E k \in 1..Len(THREAT_SIGNATURES) : contains(THREAT_SIGNATURES[k], chunk)
    THEN CHOOSE k \in 1..Len(THREAT_SIGNATURES) :
            /\ contains(THREAT_SIGNATURES[k], chunk)
            /\ \A j \in 1..(k - 1) : ~contains(THREAT_SIGNATURES[j], chunk)
    ELSE 0

(***************************************************************************)
(* Uploaded files.                                                         *)
(***************************************************************************)
Name_valid_clean_data_csv ==
    <<"v","a","l","i","d","_","c","l","e","a","n","_","d","a","t","a",".","c",
      "s","v">>
Name_malicious_executable_exe ==
    <<"m","a","l","i","c","i","o","u","s","_","e","x","e","c","u","t","a","b",
      "l","e",".","e","x","e">>
Name_payload_injection_attack_csv ==
    <<"p","a","y","l","o","a","d","_","i","n","j","e","c","t","i","o","n","_",
      "a","t","t","a","c","k",".","c","s","v">>
Name_report_csv_exe ==
    <<"r","e","p","o","r","t",".","c","s","v",".","e","x","e">>
Name_REPORT_CSV_EXE ==
    <<"R","e","p","o","r","t",".","C","S","V",".","E","X","E">>
Name_a_c_sh ==
    <<"a",".","c",".","s","h">>
Name_run_tar_sh_nl ==
    <<"r","u","n",".","t","a","r",".","s","h","\n">>
Name_x_c_v_bat ==
    <<"x",".","c","_","v",".","b","a","t">>
Bytes_valid_clean_data ==
    <<"T","r","a","n","s","a","c","t","i","o","n","_","I","D",",","A","m","o",
      "u","n","t",",","P","r","o","d","u","c","t","\n","T","X","N","-","1",
      "0","0",",","5","0","0",",","L","a","p","t","o","p","\n","T","X","N",
      "-","1","0","1",",","2","0","0",",","M","o","u","s","e","\n">>
Bytes_malicious_executable ==
    <<"T","h","i","s"," ","i","s"," ","a"," ","s","i","m","u","l","a","t","e",
      "d"," ","b","i","n","a","r","y"," ","p","a","y","l","o","a","d"," ",
      "f","o","r"," ","s","e","c","u","r","i","t","y"," ","t","e","s","t",
      "i","n","g",".">>
Bytes_payload_injection_attack ==
    <<"T","r","a","n","s","a","c","t","i","o","n","_","I","D",",","A","m","o",
      "u","n","t",",","P","r","o","d","u","c","t","\n","T","X","N","-","6",
      "6","6",",","0",",","<","s","c","r","i","p","t",">","a","l","e","r",
      "t","(","'","S","y","s","t","e","m"," ","C","o","m","p","r","o","m",
      "i","s","e","d","'",")","<","/","s","c","r","i","p","t",">","\n","T",
      "X","N","-","6","6","7",",","1","0","0",",","K","e","y","b","o","a",
      "r","d","\n">>
\* an uploaded file: declared name, byte content, declared size, the read
\* position its stream is handed over with, and whether the stream is
\* closed (every seek or read on it raises)
UploadedFile(name, content, size, p, closed) ==
    [name |-> name, content |-> content, size |-> size, pos |-> p,
     closed |-> closed]

Bytes_empty == <<>>
Bytes_clean == Lit(Bytes_valid_clean_data)
Bytes_script == Lit(Bytes_payload_injection_attack)
\* an MZ header followed by padding and a signature of the list
Bytes_MZ_script == Lit(MZ) \o Fill("0", 5000) \o Lit(THREAT_SIGNATURES[1])
Bytes_ELF == Lit(ELF) \o Fill("0", 60)
\* a script tag that ends with the last byte of the first 2 MiB
ScriptTag == <<"<","s","c","r","i","p","t",">">>
Bytes_script_deep == Fill("0", chunk_size - Len(ScriptTag)) \o Lit(ScriptTag)

\* a script tag that lies across the end of the first 2 MiB
Bytes_script_straddle == Fill("0", chunk_size - 3) \o Lit(ScriptTag)
\* 1024 bytes without any signature of the list: a run of '+' and ten SQL
\* keywords
DROP == <<"D","R","O","P">>
Bytes_obfuscated ==
    Fill("+", HEADER_SIZE - 10 * Len(DROP))
    \o Lit(DROP \o DROP \o DROP \o DROP \o DROP \o DROP \o DROP \o DROP \o DROP \o DROP)

\* a name with a character outside A-Z a-z 0-9 _ . -
Name_my_data_csv == <<"m","y"," ","d","a","t","a",".","c","s","v">>

Names ==
    { Name_valid_clean_data_csv, Name_report_csv_exe, Name_REPORT_CSV_EXE,
      Name_a_c_sh, Name_run_tar_sh_nl, Name_x_c_v_bat }
Contents == { Bytes_empty, Bytes_clean, Bytes_script, Bytes_MZ_script, Bytes_ELF }

\* 200 MiB in bytes
Limit200MiB == 209715200

\* declared sizes: the true length, 0, exactly 200 MiB, one byte over it
Sizes(content) == { CLen(content), 0, Limit200MiB, Limit200MiB + 1 }
\* initial stream positions: at the start, at the end
Positions(content) == { 0, CLen(content) }

Variants(name, content) ==
    { UploadedFile(name, content, s, p, FALSE) :
        s \in Sizes(content), p \in Positions(content) }
    \cup { UploadedFile(name, content, CLen(content), 0, TRUE) }

\* the three artifacts of create_attack_data.py
TestSuite ==
    << UploadedFile(Name_valid_clean_data_csv, Bytes_clean, CLen(Bytes_clean), 0, FALSE),
       UploadedFile(Name_malicious_executable_exe, Lit(Bytes_malicious_executable),
                    CLen(Lit(Bytes_malicious_executable)), 0, FALSE),
       UploadedFile(Name_payload_injection_attack_csv, Bytes_script,
                    CLen(Bytes_script), 0, FALSE) >>

MaxBatch == 2

SeqsUpTo(S, n) == UNION { [1..k -> S] : k \in 1..n }

\* the batches handed to save_uploaded_files: the test suite, and batches of
\* up to MaxBatch uploads of one (name, content) that differ in declared
\* size, stream position and stream state
Batches ==
    {TestSuite}
    \cup UNION { SeqsUpTo(Variants(nm, c), MaxBatch) : nm \in Names, c \in Contents }
    \cup { <<v>> : v \in Variants(Name_valid_clean_data_csv, Bytes_script_deep)
                       \cup Variants(Name_valid_clean_data_csv, Bytes_script_straddle)
                       \cup Variants(Name_valid_clean_data_csv, Bytes_obfuscated)
                       \cup Variants(Name_my_data_csv, Bytes_clean) }

(***************************************************************************)
(* State.                                                                  *)
(***************************************************************************)
VARIABLES
    uploaded_files,   \* the batch given to save_uploaded_files
    auditWritable,    \* whether open(AUDIT_LOG_FILE, "a") succeeds
    raw_dir,          \* RAW_DATA_DIR: set of [name, content]
    audit_log,        \* the lines of security_audit.jsonl
    pc,               \* position in save_uploaded_files / inspect_file
    i,                \* loop index of save_uploaded_files (1-based)
    saved_count, rejected_count,
    pos,              \* read position of the current file's stream
    reads, seeks,     \* read / seek calls issued on it by this inspection
    layers,           \* layers this inspection has evaluated, in order
    logged,           \* lines this inspection appended to the audit log
    file_hash, bytes_read, found_threat, threat_detail,
    verdict,          \* (is_safe, reason) returned by inspect_file
    inspections       \* completed inspections, one record per call

ingestVars ==
    << uploaded_files, auditWritable, raw_dir, audit_log, pc, i, saved_count,
       rejected_count, pos, reads, seeks, layers, logged, file_hash,
       bytes_read, found_threat, threat_detail, verdict, inspections >>

\* the transformation engine (modules/processor.py)
VARIABLES
    files,            \* the list of staged files handed to both strategies
    seq_pc,           \* process_sequential: "idle", "run", "done", "aborted"
    seq_i,            \* its loop index (0-based, as enumerate)
    seq_dir,          \* PROCESSED_DATA_DIR as process_sequential leaves it
    seq_written,      \* indices of the files whose artifact it has written
    seq_progress,     \* the fractions given to its progress callback
    par_pc,           \* process_parallel: "idle", "submit", "collect", "done"
    par_task,         \* state of each submitted task (future)
    par_dir,          \* PROCESSED_DATA_DIR as process_parallel leaves it
    par_written,      \* indices of the files whose artifact it has written
    par_collected,    \* futures as_completed has yielded, in order
    completed,        \* the counter of process_parallel
    par_progress,     \* the fractions given to its progress callback
    seq_result,       \* what process_sequential returned
    par_result        \* what process_parallel returned

procVars ==
    << files, seq_pc, seq_i, seq_dir, seq_written, seq_progress, par_pc,
       par_task, par_dir, par_written, par_collected, completed, par_progress,
       seq_result, par_result >>

\* the merge (create_merged_zip of ui/dashboard.py)
VARIABLES
    processed_dir,    \* PROCESSED_DATA_DIR: the artifacts, in listdir order
    merge_pc,         \* "list", "loop", "zip", "done"
    all_files,        \* the sorted list of artifacts
    merge_j,          \* position of the for loop in all_files (1-based)
    first_file,
    outfile,          \* the lines of Enterprise_Consolidated_Data.csv
    appended,         \* artifacts whose rows were written, in order
    skipped,          \* artifacts reported as "Skipping corrupt file"
    merge_result      \* what create_merged_zip returned

mergeVars ==
    << processed_dir, merge_pc, all_files, merge_j, first_file, outfile,
       appended, skipped, merge_result >>

\* concurrent calls of SecurityAuditor.log_event
VARIABLES
    append_atomic,    \* whether the platform appends in one atomic step
    log_before,       \* security_audit.jsonl before the calls
    log_file,         \* security_audit.jsonl, as a sequence of characters
    log_pc,           \* position of each call
    log_buffer,       \* buffer of each call's file object
    log_offset        \* file offset of each call's file descriptor

logVars ==
    << append_atomic, log_before, log_file, log_pc, log_buffer, log_offset >>

\* concurrent dashboard sessions on one workspace
VARIABLES
    run_pc,           \* position of each session's run of render_dashboard
    todo,             \* files the strategy call of each session has yet to transform
    processed,        \* PROCESSED_DATA_DIR: the staged files whose artifact exists
    merge_reads       \* the listings of the directory made by create_merged_zip
dashVars == << run_pc, todo, processed, merge_reads >>

vars == << ingestVars, procVars, mergeVars, logVars, dashVars >>

NoVerdict == [safe |-> FALSE, reason |-> "", detail |-> <<>>]
Verdict(safe, reason, detail) == [safe |-> safe, reason |-> reason, detail |-> detail]

\* the record log_event builds (the timestamp is left out)
AuditEvent(filename, status, reason, detail, hash) ==
    [filename |-> filename, status |-> status, reason |-> reason,
     detail |-> detail, file_hash_sha256 |-> hash,
     scan_engine |-> "v2.1-Enterprise"]

\* an audit line that leaves the hash out
log_event_no_hash(log, writable, filename, status, reason, detail, hash) ==
    IF writable
    THEN Append(log, AuditEvent(filename, status, reason, detail, NA))
    ELSE log

\* SecurityAuditor.log_event: append one line; a failing write is swallowed
log_event(log, writable, filename, status, reason, detail, hash) ==
    IF writable
    THEN Append(log, AuditEvent(filename, status, reason, detail, hash))
    ELSE log

cur == uploaded_files[i]
filename == lower(cur.name)

IngestInit ==
    /\ uploaded_files \in Batches
    /\ auditWritable = TRUE
    /\ raw_dir \in { {}, {[name |-> Name_a_c_sh, content |-> Bytes_clean]} }
    /\ audit_log = <<>>
    /\ pc = "start"
    /\ i = 1
    /\ saved_count = 0
    /\ rejected_count = 0
    /\ pos = 0
    /\ reads = 0
    /\ seeks = 0
    /\ layers = <<>>
    /\ logged = 0
    /\ file_hash = NA
    /\ bytes_read = 0
    /\ found_threat = FALSE
    /\ threat_detail = <<>>
    /\ verdict = NoVerdict
    /\ inspections = <<>>

(***************************************************************************)
(* save_uploaded_files and inspect_file, one action per step.              *)
(***************************************************************************)
\* dashboard.py 24-31: rebuild the staging directory, zero the counters
ClearStaging ==
    /\ UNCHANGED << procVars, mergeVars, logVars, dashVars >>
    /\ pc = "start"
    /\ raw_dir' = {}
    /\ saved_count' = 0
    /\ rejected_count' = 0
    /\ i' = 1
    /\ pc' = "loop"
    /\ UNCHANGED << uploaded_files, auditWritable, audit_log, pos, reads,
                    seeks, layers, logged, file_hash, bytes_read,
                    found_threat, threat_detail, verdict, inspections >>

\* dashboard.py 33-34: the loop takes the next file and calls inspect_file
CallInspect ==
    /\ UNCHANGED << procVars, mergeVars, logVars, dashVars >>
    /\ pc = "loop"
    /\ i <= Len(uploaded_files)
    /\ pos' = cur.pos
    /\ reads' = 0
    /\ seeks' = 0
    /\ layers' = <<>>
    /\ logged' = 0
    /\ file_hash' = NA
    /\ bytes_read' = 0
    /\ found_threat' = FALSE
    /\ threat_detail' = <<>>
    /\ verdict' = NoVerdict
    /\ pc' = "naming"
    /\ UNCHANGED << uploaded_files, auditWritable, raw_dir, audit_log, i,
                    saved_count, rejected_count, inspections >>

\* the return of inspect_file with a rejection logged (or not) on the way
Reject(status_reason, hash, reason) ==
    /\ audit_log' = log_event(audit_log, auditWritable, filename, "BLOCKED",
                              status_reason, <<>>, hash)
    /\ logged' = logged + (Len(audit_log') - Len(audit_log))
    /\ verdict' = Verdict(FALSE, reason, <<>>)
    /\ pc' = "returned"

\* security.py 81-85, layer 1: double extension
NamingPolicy ==
    /\ UNCHANGED << procVars, mergeVars, logVars, dashVars >>
    /\ pc = "naming"
    /\ layers' = Append(layers, "naming")
    /\ IF double_extension(filename)
       THEN Reject("Double Extension Spoofing", NA,
                   "Security Policy Violation: Double Extension Detected.")
       ELSE /\ pc' = "size"
            /\ UNCHANGED << audit_log, logged, verdict >>
    /\ UNCHANGED << uploaded_files, auditWritable, raw_dir, i, saved_count,
                    rejected_count, pos, reads, seeks, file_hash, bytes_read,
                    found_threat, threat_detail, inspections >>

\* a size limit that rejects the limit itself
SizePolicy_inclusive ==
    /\ UNCHANGED << procVars, mergeVars, logVars, dashVars >>
    /\ pc = "size"
    /\ layers' = Append(layers, "size")
    /\ IF cur.size >= MAX_SIZE
       THEN Reject("File Size Limit Exceeded", NA, "File exceeds 200MB limit.")
       ELSE /\ pc' = "hash"
            /\ UNCHANGED << audit_log, logged, verdict >>
    /\ UNCHANGED << uploaded_files, auditWritable, raw_dir, i, saved_count,
                    rejected_count, pos, reads, seeks, file_hash, bytes_read,
                    found_threat, threat_detail, inspections >>

\* security.py 87-90: size limit on the declared size
SizePolicy ==
    /\ UNCHANGED << procVars, mergeVars, logVars, dashVars >>
    /\ pc = "size"
    /\ layers' = Append(layers, "size")
    /\ IF cur.size > MAX_SIZE
       THEN Reject("File Size Limit Exceeded", NA, "File exceeds 200MB limit.")
       ELSE /\ pc' = "hash"
            /\ UNCHANGED << audit_log, logged, verdict >>
    /\ UNCHANGED << uploaded_files, auditWritable, raw_dir, i, saved_count,
                    rejected_count, pos, reads, seeks, file_hash, bytes_read,
                    found_threat, threat_detail, inspections >>

\* security.py 92-96, layer 2: the hash; an exception of the stream is
\* turned into a rejection that is returned without a log_event call
IntegrityFingerprint ==
    /\ UNCHANGED << procVars, mergeVars, logVars, dashVars >>
    /\ pc = "hash"
    /\ layers' = Append(layers, "hash")
    /\ IF cur.closed
       THEN /\ seeks' = seeks + 1
            /\ verdict' = Verdict(FALSE, "Hashing Failed: ", <<>>)
            /\ pc' = "returned"
            /\ UNCHANGED << pos, reads, file_hash >>
       ELSE LET h == calculate_hash(cur.content, pos)
            IN  /\ file_hash' = h.hexdigest
                /\ pos' = h.pos
                /\ reads' = reads + h.reads
                /\ seeks' = seeks + h.seeks
                /\ pc' = "header"
                /\ UNCHANGED verdict
    /\ UNCHANGED << uploaded_files, auditWritable, raw_dir, audit_log, i,
                    saved_count, rejected_count, logged, bytes_read,
                    found_threat, threat_detail, inspections >>

\* a header check that leaves the stream behind the bytes it has read
HeaderVerification_no_rewind ==
    /\ UNCHANGED << procVars, mergeVars, logVars, dashVars >>
    /\ pc = "header"
    /\ layers' = Append(layers, "header")
    /\ LET header == read(cur.content, pos, HEADER_SIZE)
       IN  /\ reads' = reads + 1
           /\ UNCHANGED seeks
           /\ pos' = pos + CLen(header)
           /\ IF startswith(header, MZ)
              THEN Reject("Malicious Header (MZ)", file_hash,
                          "Critical: Executable header detected in non-executable file.")
              ELSE IF startswith(header, ELF)
              THEN Reject("Malicious Header (ELF)", file_hash,
                          "Critical: Linux binary header detected.")
              ELSE /\ pc' = "scan_init"
                   /\ UNCHANGED << audit_log, logged, verdict >>
    /\ UNCHANGED << uploaded_files, auditWritable, raw_dir, i, saved_count,
                    rejected_count, file_hash, bytes_read, found_threat,
                    threat_detail, inspections >>

\* security.py 98-111, layer 3: magic bytes of the first 1024 bytes
HeaderVerification ==
    /\ UNCHANGED << procVars, mergeVars, logVars, dashVars >>
    /\ pc = "header"
    /\ layers' = Append(layers, "header")
    /\ LET header == read(cur.content, pos, HEADER_SIZE)
       IN  /\ reads' = reads + 1
           /\ seeks' = seeks + 1
           /\ pos' = 0
           /\ IF startswith(header, MZ)
              THEN Reject("Malicious Header (MZ)", file_hash,
                          "Critical: Executable header detected in non-executable file.")
              ELSE IF startswith(header, ELF)
              THEN Reject("Malicious Header (ELF)", file_hash,
                          "Critical: Linux binary header detected.")
              ELSE /\ pc' = "scan_init"
                   /\ UNCHANGED << audit_log, logged, verdict >>
    /\ UNCHANGED << uploaded_files, auditWritable, raw_dir, i, saved_count,
                    rejected_count, file_hash, bytes_read, found_threat,
                    threat_detail, inspections >>

\* security.py 117-124: set up the deep scan
ScanInit ==
    /\ UNCHANGED << procVars, mergeVars, logVars, dashVars >>
    /\ pc = "scan_init"
    /\ layers' = Append(layers, "scan")
    /\ bytes_read' = 0
    /\ found_threat' = FALSE
    /\ threat_detail' = <<>>
    /\ seeks' = seeks + 1
    /\ pos' = 0
    /\ pc' = "scan"
    /\ UNCHANGED << uploaded_files, auditWritable, raw_dir, audit_log, i,
                    saved_count, rejected_count, reads, logged, file_hash,
                    verdict, inspections >>

\* security.py 125-143: one evaluation of the loop condition and, when it
\* holds, one iteration of the while loop
ScanChunk ==
    /\ UNCHANGED << procVars, mergeVars, logVars, dashVars >>
    /\ pc = "scan"
    /\ IF bytes_read < cur.size
       THEN LET chunk == read(cur.content, pos, chunk_size)
                k == first_signature(chunk)
            IN  /\ reads' = reads + 1
                /\ pos' = pos + CLen(chunk)
                /\ IF chunk = <<>>
                   THEN /\ pc' = "scan_end"
                        /\ UNCHANGED << found_threat, threat_detail, bytes_read >>
                   ELSE IF k # 0
                   THEN /\ found_threat' = TRUE
                        /\ threat_detail' = THREAT_SIGNATURES[k]
                        /\ pc' = "scan_end"
                        /\ UNCHANGED bytes_read
                   ELSE /\ bytes_read' = bytes_read + CLen(chunk)
                        /\ pc' = "scan"
                        /\ UNCHANGED << found_threat, threat_detail >>
       ELSE /\ pc' = "scan_end"
            /\ UNCHANGED << reads, pos, found_threat, threat_detail, bytes_read >>
    /\ UNCHANGED << uploaded_files, auditWritable, raw_dir, audit_log, i,
                    saved_count, rejected_count, seeks, layers, logged,
                    file_hash, verdict, inspections >>

\* a verdict that a failed audit write turns into a rejection
ScanVerdict_audit_failure_surfaces ==
    /\ UNCHANGED << procVars, mergeVars, logVars, dashVars >>
    /\ pc = "scan_end"
    /\ seeks' = seeks + 1
    /\ pos' = 0
    /\ IF found_threat
       THEN /\ audit_log' = log_event(audit_log, auditWritable, filename, "BLOCKED",
                                      "Threat Signature Detected: ",
                                      threat_detail, file_hash)
            /\ verdict' = Verdict(FALSE, "Malicious Payload Detected: ", threat_detail)
       ELSE /\ audit_log' = log_event(audit_log, auditWritable, filename, "CLEAN",
                                      "Passed all inspections", <<>>, file_hash)
            /\ verdict' = IF auditWritable
                          THEN Verdict(TRUE, "File is clean.", <<>>)
                          ELSE Verdict(FALSE, "Failed to write audit log", <<>>)
    /\ logged' = logged + (Len(audit_log') - Len(audit_log))
    /\ pc' = "returned"
    /\ UNCHANGED << uploaded_files, auditWritable, raw_dir, i, saved_count,
                    rejected_count, reads, layers, file_hash, bytes_read,
                    found_threat, threat_detail, inspections >>

\* security.py 145-153: reset the stream, log and return the verdict
ScanVerdict ==
    /\ UNCHANGED << procVars, mergeVars, logVars, dashVars >>
    /\ pc = "scan_end"
    /\ seeks' = seeks + 1
    /\ pos' = 0
    /\ IF found_threat
       THEN /\ audit_log' = log_event(audit_log, auditWritable, filename, "BLOCKED",
                                      "Threat Signature Detected: ",
                                      threat_detail, file_hash)
            /\ verdict' = Verdict(FALSE, "Malicious Payload Detected: ", threat_detail)
       ELSE /\ audit_log' = log_event(audit_log, auditWritable, filename, "CLEAN",
                                      "Passed all inspections", <<>>, file_hash)
            /\ verdict' = Verdict(TRUE, "File is clean.", <<>>)
    /\ logged' = logged + (Len(audit_log') - Len(audit_log))
    /\ pc' = "returned"
    /\ UNCHANGED << uploaded_files, auditWritable, raw_dir, i, saved_count,
                    rejected_count, reads, layers, file_hash, bytes_read,
                    found_threat, threat_detail, inspections >>

\* what one call of inspect_file did
Inspection ==
    [file |-> cur, safe |-> verdict.safe, reason |-> verdict.reason,
     detail |-> verdict.detail, hash |-> file_hash, logged |-> logged,
     reads |-> reads, seeks |-> seeks, layers |-> layers, pos |-> pos,
     events |-> SubSeq(audit_log, Len(audit_log) - logged + 1, Len(audit_log)),
     writable |-> auditWritable, bytes_read |-> bytes_read]

\* os.path.join(RAW_DATA_DIR, name) opened "wb": the file of that name is
\* created or replaced
write_file(dir, name, content) ==
    { f \in dir : f.name # name } \cup { [name |-> name, content |-> content] }

\* dashboard.py 36-47: stage the file if it is safe, count it otherwise
StageOrReject ==
    /\ UNCHANGED << procVars, mergeVars, logVars, dashVars >>
    /\ pc = "returned"
    /\ inspections' = Append(inspections, Inspection)
    /\ IF verdict.safe
       THEN /\ raw_dir' = write_file(raw_dir, cur.name, cur.content)
            /\ saved_count' = saved_count + 1
            /\ UNCHANGED rejected_count
       ELSE /\ rejected_count' = rejected_count + 1
            /\ UNCHANGED << raw_dir, saved_count >>
    /\ i' = i + 1
    /\ pc' = "loop"
    /\ UNCHANGED << uploaded_files, auditWritable, audit_log, pos, reads,
                    seeks, layers, logged, file_hash, bytes_read,
                    found_threat, threat_detail, verdict >>

\* dashboard.py 49-55: the loop is over, saved_count is returned
ReturnSaved ==
    /\ UNCHANGED << procVars, mergeVars, logVars, dashVars >>
    /\ pc = "loop"
    /\ i > Len(uploaded_files)
    /\ pc' = "done"
    /\ UNCHANGED << uploaded_files, auditWritable, raw_dir, audit_log, i,
                    saved_count, rejected_count, pos, reads, seeks, layers,
                    logged, file_hash, bytes_read, found_threat,
                    threat_detail, verdict, inspections >>

\* the environment: security_audit.jsonl becomes unwritable (or writable
\* again) between two inspections
AuditLogToggle ==
    /\ UNCHANGED << procVars, mergeVars, logVars, dashVars >>
    /\ pc = "loop"
    /\ i <= Len(uploaded_files)
    /\ auditWritable' = ~auditWritable
    /\ UNCHANGED << uploaded_files, raw_dir, audit_log, pc, i, saved_count,
                    rejected_count, pos, reads, seeks, layers, logged,
                    file_hash, bytes_read, found_threat, threat_detail,
                    verdict, inspections >>

\* batches in which the same upload occurs twice
TwiceBatches ==
    { <<v, v>> : v \in UNION { Variants(nm, c) : nm \in Names, c \in Contents } }

\* ingestion with an audit log that may be unwritable
IngestFaultInit ==
    /\ uploaded_files \in TwiceBatches
    /\ auditWritable \in BOOLEAN
    /\ raw_dir = {}
    /\ audit_log = <<>>
    /\ pc = "start"
    /\ i = 1
    /\ saved_count = 0
    /\ rejected_count = 0
    /\ pos = 0
    /\ reads = 0
    /\ seeks = 0
    /\ layers = <<>>
    /\ logged = 0
    /\ file_hash = NA
    /\ bytes_read = 0
    /\ found_threat = FALSE
    /\ threat_detail = <<>>
    /\ verdict = NoVerdict
    /\ inspections = <<>>

IngestNext ==
    \/ ClearStaging
    \/ CallInspect
    \/ NamingPolicy
    \/ SizePolicy
    \/ IntegrityFingerprint
    \/ HeaderVerification
    \/ ScanInit
    \/ ScanChunk
    \/ ScanVerdict
    \/ StageOrReject
    \/ ReturnSaved

(***************************************************************************)
(* Properties of the inspection pipeline and of the staging loop.          *)
(***************************************************************************)
Done(k) == inspections[k]
NumDone == Len(inspections)

\* C1: every invocation of inspect_file, whatever its outcome, appends
\* exactly one AuditEvent to the audit log.
C1_ExactlyOneAuditEventPerInspection ==
    /\ \A k \in 1..NumDone : Done(k).logged = 1
    /\ pc \in {"loop", "done"} => Len(audit_log) = NumDone

StatusCount(s) == Cardinality({ k \in 1..Len(audit_log) : audit_log[k].status = s })

\* C6: the three-file test suite (clean CSV, .exe-named file, CSV with
\* <script>) ends with exactly 1 staged file, 2 rejected files and 3
\* AuditEvents, 1 CLEAN and 2 BLOCKED, with pairwise distinct reasons.
C6_TestSuiteOneAdmittedTwoRejected ==
    (uploaded_files = TestSuite /\ pc = "done") =>
        /\ saved_count = 1
        /\ Cardinality(raw_dir) = 1
        /\ rejected_count = 2
        /\ Len(audit_log) = 3
        /\ StatusCount("CLEAN") = 1
        /\ StatusCount("BLOCKED") = 2
        /\ \A a, b \in 1..Len(audit_log) :
              a # b => << audit_log[a].reason, audit_log[a].detail >>
                       # << audit_log[b].reason, audit_log[b].detail >>

SameVerdict(a, b) ==
    /\ a.safe = b.safe
    /\ a.reason = b.reason
    /\ a.detail = b.detail
    /\ a.hash = b.hash

\* C7 as claimed: two invocations with the same name and the same bytes
\* return the same verdict and record the same hash, regardless of the
\* declared size, the initial stream position and earlier invocations.
C7_VerdictFunctionOfNameAndBytes ==
    \A a, b \in 1..NumDone :
        (Done(a).file.name = Done(b).file.name
         /\ Done(a).file.content = Done(b).file.content)
        => SameVerdict(Done(a), Done(b))

\* C7 as amended: on readable streams, two invocations with the same name,
\* the same bytes and the same declared size return the same verdict and
\* record the same hash, regardless of the initial stream position and of
\* earlier invocations.
C7_VerdictFunctionOfNameBytesAndSize ==
    \A a, b \in 1..NumDone :
        (/\ Done(a).file.name = Done(b).file.name
         /\ Done(a).file.content = Done(b).file.content
         /\ Done(a).file.size = Done(b).file.size
         /\ ~Done(a).file.closed
         /\ ~Done(b).file.closed)
        => SameVerdict(Done(a), Done(b))

\* two hashed inspections of the same (name, bytes, size) whose streams
\* were handed over at different positions
C7_Witness ==
    \E a, b \in 1..NumDone :
        /\ Done(a).file.name = Done(b).file.name
        /\ Done(a).file.content = Done(b).file.content
        /\ Done(a).file.size = Done(b).file.size
        /\ ~Done(a).file.closed
        /\ ~Done(b).file.closed
        /\ Done(a).file.pos # Done(b).file.pos
        /\ Done(a).hash # NA
        /\ Done(a).file.content # <<>>

\* the claim's own reading of the name: the lower-cased name ends with
\* "." + 2..4 characters of a-z0-9 + "." + one of the six extensions
SpoofedName(name) ==
    LET s == [k \in 1..Len(name) |-> lower_char(name[k])]
    IN  \E ext \in { <<"e","x","e">>, <<"b","a","t">>, <<"s","h">>,
                     <<"b","i","n">>, <<"d","l","l">>, <<"p","s","1">> },
           m \in {2, 3, 4} :
            LET n == Len(s)
                d2 == n - Len(ext)      \* the "." before the extension
                d1 == d2 - m - 1        \* the "." before the middle part
            IN  /\ d1 >= 1
                /\ SubSeq(s, d2 + 1, n) = ext
                /\ s[d2] = "."
                /\ s[d1] = "."
                /\ \A k \in (d1 + 1)..(d2 - 1) :
                      s[k] \in {LowerCase[j] : j \in 1..26} \cup Digits

\* names of the model that the naming layer has no reason to reject
PlainNames == { Name_valid_clean_data_csv, Name_a_c_sh, Name_x_c_v_bat }

NamingRejection(r) ==
    /\ ~r.safe
    /\ r.reason = "Security Policy Violation: Double Extension Detected."
    /\ r.layers = <<"naming">>

\* C8: a file whose lower-cased name ends with .<2-4 alphanumerics>.<exe|
\* bat|sh|bin|dll|ps1> is always rejected at the Naming Policy layer, and
\* on that path no read or seek is issued on the content stream.
C8_SpoofedNameRejectedBeforeAnyRead ==
    /\ \A k \in 1..NumDone :
          SpoofedName(Done(k).file.name) =>
              /\ NamingRejection(Done(k))
              /\ Done(k).reads = 0
              /\ Done(k).seeks = 0
              /\ Done(k).pos = Done(k).file.pos
    /\ (pc \notin {"start", "loop", "done"} /\ SpoofedName(cur.name)) =>
          /\ pc \in {"naming", "returned"}
          /\ reads = 0
          /\ seeks = 0

\* a spoofed upper-case name on a stream that is not at position 0 was
\* rejected by the naming layer
C8_Witness ==
    \E k \in 1..NumDone :
        /\ Done(k).file.name = Name_REPORT_CSV_EXE
        /\ Done(k).file.pos # 0
        /\ NamingRejection(Done(k))

SizeRejection(r) ==
    /\ ~r.safe
    /\ r.reason = "File exceeds 200MB limit."
    /\ r.layers = <<"naming", "size">>

\* C9 as claimed: a file whose declared size exceeds 200 MiB is always
\* rejected at the Size Policy layer, even with an empty stream, before any
\* read; a declared size of exactly 200 MiB is not rejected by this layer.
C9_OversizeRejectedAtSizeLayer ==
    \A k \in 1..NumDone :
        /\ Done(k).file.size > Limit200MiB =>
              (SizeRejection(Done(k)) /\ Done(k).reads = 0)
        /\ Done(k).file.size = Limit200MiB => ~SizeRejection(Done(k))

\* C9 as amended: a file whose declared size exceeds 200 MiB is always
\* rejected before any read of its content, even with an empty stream: at
\* the Size Policy layer, unless the Naming Policy layer has rejected it
\* already; a declared size of exactly 200 MiB is not rejected by the Size
\* Policy layer.
C9_OversizeRejectedBeforeAnyRead ==
    \A k \in 1..NumDone :
        /\ Done(k).file.size > Limit200MiB =>
              /\ Done(k).reads = 0
              /\ Done(k).seeks = 0
              /\ NamingRejection(Done(k)) \/ SizeRejection(Done(k))
              /\ SpoofedName(Done(k).file.name) \/ Done(k).file.name \in PlainNames
                    => (NamingRejection(Done(k)) <=> SpoofedName(Done(k).file.name))
        /\ Done(k).file.size = Limit200MiB =>
              /\ ~SizeRejection(Done(k))
              /\ NamingRejection(Done(k)) \/ Len(Done(k).layers) >= 3

\* an oversize declaration on an empty stream was rejected by the size
\* layer, and a declaration of exactly 200 MiB went on to the hash layer
C9_Witness ==
    \E a, b \in 1..NumDone :
        /\ Done(a).file.size = Limit200MiB + 1
        /\ Done(a).file.content = <<>>
        /\ SizeRejection(Done(a))
        /\ Done(b).file.size = Limit200MiB
        /\ Done(b).hash # NA

BeginsWithMZ(content) ==
    /\ CLen(content) >= 2
    /\ Expand(Take(content, 2), 2) = <<"M", "Z">>

HashRejection(r) ==
    /\ ~r.safe
    /\ r.reason = "Hashing Failed: "
    /\ r.layers = <<"naming", "size", "hash">>

HeaderRejection(r) ==
    /\ ~r.safe
    /\ r.reason = "Critical: Executable header detected in non-executable file."
    /\ r.layers = <<"naming", "size", "hash", "header">>

\* C10 as claimed: a file whose content begins with the bytes 4D 5A is
\* always rejected at Header Verification, whatever the remaining content,
\* and the deep signature scan is not run for it.
C10_MZRejectedAtHeader ==
    \A k \in 1..NumDone :
        BeginsWithMZ(Done(k).file.content) => HeaderRejection(Done(k))

\* C10 as amended: a file whose content begins with 4D 5A is always
\* rejected without the deep signature scan being run, whatever the
\* remaining content: at Header Verification, unless the naming layer, the
\* size layer (declared size over the limit) or the hash layer (unreadable
\* stream) has rejected it already.
C10_MZRejectedWithoutDeepScan ==
    \A k \in 1..NumDone :
        BeginsWithMZ(Done(k).file.content) =>
            /\ ~Done(k).safe
            /\ \A j \in 1..Len(Done(k).layers) : Done(k).layers[j] # "scan"
            /\ \/ NamingRejection(Done(k))
               \/ SizeRejection(Done(k)) /\ Done(k).file.size > Limit200MiB
               \/ HashRejection(Done(k)) /\ Done(k).file.closed
               \/ HeaderRejection(Done(k))
            /\ (/\ Done(k).file.name \in PlainNames
                /\ Done(k).file.size <= Limit200MiB
                /\ ~Done(k).file.closed) => HeaderRejection(Done(k))

\* an MZ file that also carries a threat signature was rejected by the
\* header layer
C10_Witness ==
    \E k \in 1..NumDone :
        /\ Done(k).file.content = Bytes_MZ_script
        /\ first_signature(Done(k).file.content) # 0
        /\ HeaderRejection(Done(k))

(***************************************************************************)
(* The transformation engine: modules/processor.py.                        *)
(***************************************************************************)
\* str.endswith
endswith(s, suffix) ==
    /\ Len(s) >= Len(suffix)
    /\ SubSeq(s, Len(s) - Len(suffix) + 1, Len(s)) = suffix

\* only a trailing occurrence of old is replaced
replace_suffix(s, old, new) ==
    IF endswith(s, old) THEN SubSeq(s, 1, Len(s) - Len(old)) \o new ELSE s

\* str.replace(old, new): every non-overlapping occurrence, left to right
RECURSIVE replace(_, _, _)
replace(s, old, new) ==
    IF Len(s) < Len(old) THEN s
    ELSE IF SubSeq(s, 1, Len(old)) = old
    THEN new \o replace(SubSeq(s, Len(old) + 1, Len(s)), old, new)
    ELSE <<Head(s)>> \o replace(Tail(s), old, new)

Ext_json == <<".","j","s","o","n">>
Ext_csv == <<".","c","s","v">>
Processed_prefix == <<"p","r","o","c","e","s","s","e","d","_">>

\* processor.py 37-42: the name of the artifact written for a staged file
output_name(name) ==
    Processed_prefix
    \o (IF endswith(name, Ext_json) THEN replace(name, Ext_json, Ext_csv) ELSE name)

\* a table (DataFrame): column names and rows; amounts are in cents
Table(columns, rows) == [columns |-> columns, rows |-> rows]

HasColumn(t, c) == \E k \in 1..Len(t.columns) : t.columns[k] = c
ColumnIndex(t, c) == CHOOSE k \in 1..Len(t.columns) : t.columns[k] = c

\* df[c] = values: the column is replaced where it exists, added otherwise
SetColumn(t, c, values) ==
    IF HasColumn(t, c)
    THEN Table(t.columns,
               [r \in 1..Len(t.rows) |->
                   [t.rows[r] EXCEPT ![ColumnIndex(t, c)] = values[r]]])
    ELSE Table(Append(t.columns, c),
               [r \in 1..Len(t.rows) |-> Append(t.rows[r], values[r])])

\* round(x, 2) of x = num / den cents, ties to the even cent
RoundHalfEven(num, den) ==
    LET q == num \div den
        r == num % den
    IN  IF 2 * r < den THEN q
        ELSE IF 2 * r > den THEN q + 1
        ELSE IF q % 2 = 0 THEN q ELSE q + 1

TAX_PERCENT == 18

\* amounts up to MaxTieAmount cents whose product with the double 0.18
\* lies just below a half cent although Amount * 18 / 100 is exactly on it
MaxTieAmount == 2000
DoubleBelowTie == {575, 675, 1075, 1175, 1675}

\* a tax that drops the fraction of a cent
round_tax_truncating(a) == (a * TAX_PERCENT) \div 100

\* (Amount * 0.18).round(2) for an Amount of a cents (0 <= a), computed as
\* pandas computes it in IEEE double arithmetic: the nearest cent, a tie
\* going to the even cent unless the double product lies below it.  The
\* amounts of the model are whole units or at most MaxTieAmount cents.
round_tax(a) ==
    IF a <= MaxTieAmount /\ a \in DoubleBelowTie
    THEN (a * TAX_PERCENT) \div 100
    ELSE RoundHalfEven(a * TAX_PERCENT, 100)

\* processor.py 30-34: the tax columns, when there is an Amount column
business_logic(t) ==
    IF HasColumn(t, "Amount")
    THEN LET a == ColumnIndex(t, "Amount")
             tax == [r \in 1..Len(t.rows) |-> round_tax(t.rows[r][a])]
             t1 == SetColumn(t, "Tax_Amount", tax)
             total == [r \in 1..Len(t.rows) |-> t1.rows[r][a] + tax[r]]
         IN  SetColumn(t1, "Total_Amount", total)
    ELSE t

\* a staged file: its name, its parsed content, and what goes wrong when it
\* is transformed: "none", "missing" (the path does not exist), "parse"
\* (read_csv / read_json raises), "write" (to_csv raises), "amount_text"
\* (a cell of the Amount column is not a number, so the column is read as
\* text and Amount * 0.18 raises TypeError)
StagedFile(name, table, fault) == [name |-> name, table |-> table, fault |-> fault]
Faults == {"none", "missing", "parse", "write"}

Artifact(name, table) == [name |-> name, table |-> table]

\* a transformation whose exceptions reach the caller
transformation_logic_uncaught(f) ==
    IF f.fault = "missing"
    THEN [ok |-> FALSE, raised |-> FALSE, artifact |-> {}]
    ELSE IF f.fault \in {"parse", "write", "amount_text"}
    THEN [ok |-> FALSE, raised |-> TRUE, artifact |-> {}]
    ELSE [ok |-> TRUE, raised |-> FALSE,
          artifact |-> {Artifact(output_name(f.name), business_logic(f.table))}]

\* processor.py 13-47: the outcome of one call: the value returned, whether
\* an exception left the function, and the artifact written (if any)
transformation_logic(f) ==
    IF f.fault = "missing"
    THEN [ok |-> FALSE, raised |-> FALSE, artifact |-> {}]
    ELSE IF f.fault \in {"parse", "write", "amount_text"}
    THEN [ok |-> FALSE, raised |-> FALSE, artifact |-> {}]
    ELSE [ok |-> TRUE, raised |-> FALSE,
          artifact |-> {Artifact(output_name(f.name), business_logic(f.table))}]

\* df.to_csv(save_path): the file of that name is created or replaced
save(dir, artifacts) ==
    { x \in dir : \A y \in artifacts : x.name # y.name } \cup artifacts

Name_a_csv == <<"a",".","c","s","v">>
Name_a_json == <<"a",".","j","s","o","n">>
Name_a_json_json == <<"a",".","j","s","o","n",".","j","s","o","n">>
Name_a_csv_json == <<"a",".","c","s","v",".","j","s","o","n">>
Name_m_csv == <<"m",".","c","s","v">>

TXN(d) == <<"T","X","N","-">> \o d

\* the content staged under each name (amounts in cents)
TableOf(name) ==
    IF name = Name_a_csv
    THEN Table(<<"Transaction_ID", "Amount", "Product">>,
               << <<TXN(<<"1","0","0">>), 100000, "Laptop">>,
                  <<TXN(<<"1","0","1">>), 575, "Mouse">> >>)
    ELSE IF name = Name_a_json
    THEN Table(<<"Transaction_ID", "Amount">>,
               << <<TXN(<<"7">>), 100000>> >>)
    ELSE IF name = Name_a_json_json
    THEN Table(<<"Transaction_ID", "Product">>,
               << <<TXN(<<"1","0">>), "Keyboard">>,
                  <<TXN(<<"9">>), "Cable">> >>)
    ELSE IF name = Name_m_csv
    THEN Table(<<"Transaction_ID", "Amount">>,
               << <<TXN(<<"1">>), <<"1","0","0","0">> >>,
                  <<TXN(<<"2">>), <<"a","b","c">> >> >>)
    ELSE Table(<<"Transaction_ID", "Amount">>,
               << <<TXN(<<"2","0">>), 99>> >>)

StagedNames == { Name_a_csv, Name_a_json, Name_a_json_json, Name_a_csv_json }
Staged ==
    { StagedFile(nm, TableOf(nm), f) : nm \in StagedNames, f \in Faults }
    \cup { StagedFile(Name_m_csv, TableOf(Name_m_csv), "amount_text") }

MaxFiles == 2
NumWorkers == 2

\* lists of staged files: a directory holds each name once
FileLists ==
    { fs \in UNION { [1..k -> Staged] : k \in 0..MaxFiles } :
        \A a, b \in 1..Len(fs) : a # b => fs[a].name # fs[b].name }

\* what a strategy returns: time.time() - start_time, a float
NotReturned == [kind |-> "none"]
ElapsedSeconds == [kind |-> "float"]

ProcIdle ==
    /\ files = <<>>
    /\ seq_pc = "idle"
    /\ seq_i = 0
    /\ seq_dir = {}
    /\ seq_written = {}
    /\ seq_progress = <<>>
    /\ seq_result = NotReturned
    /\ par_result = NotReturned
    /\ par_pc = "idle"
    /\ par_task = <<>>
    /\ par_dir = {}
    /\ par_written = {}
    /\ par_collected = <<>>
    /\ completed = 0
    /\ par_progress = <<>>

\* both strategies are run on the same list from an empty output directory
ProcInit ==
    /\ files \in FileLists
    /\ seq_pc = "idle"
    /\ seq_i = 0
    /\ seq_dir = {}
    /\ seq_written = {}
    /\ seq_progress = <<>>
    /\ seq_result = NotReturned
    /\ par_result = NotReturned
    /\ par_pc = "idle"
    /\ par_task = [k \in 1..Len(files) |-> "new"]
    /\ par_dir = {}
    /\ par_written = {}
    /\ par_collected = <<>>
    /\ completed = 0
    /\ par_progress = <<>>

total == Len(files)
Fraction(num, den) == [num |-> num, den |-> den]

seqVars == << seq_pc, seq_i, seq_dir, seq_written, seq_progress, seq_result >>
parVars == << par_pc, par_task, par_dir, par_written, par_collected, completed,
              par_progress, par_result >>

\* processor.py 51-52: process_sequential is called
SeqStart ==
    /\ UNCHANGED << ingestVars, mergeVars, logVars, dashVars >>
    /\ seq_pc = "idle"
    /\ seq_pc' = "run"
    /\ seq_i' = 0
    /\ UNCHANGED << files, seq_dir, seq_written, seq_progress, seq_result, parVars >>

\* one iteration of a loop that reports the files 1, 11, 21, ... only
SeqStep_every_tenth ==
    /\ UNCHANGED << ingestVars, mergeVars, logVars, dashVars >>
    /\ seq_pc = "run"
    /\ seq_i < total
    /\ LET r == transformation_logic(files[seq_i + 1])
       IN  IF r.raised
           THEN /\ seq_pc' = "aborted"
                /\ UNCHANGED << seq_i, seq_dir, seq_written, seq_progress >>
           ELSE /\ seq_dir' = save(seq_dir, r.artifact)
                /\ seq_written' = IF r.ok THEN seq_written \cup {seq_i + 1}
                                  ELSE seq_written
                /\ seq_progress' = IF seq_i % 10 = 0
                                   THEN Append(seq_progress, Fraction(seq_i + 1, total))
                                   ELSE seq_progress
                /\ seq_i' = seq_i + 1
                /\ UNCHANGED seq_pc
    /\ UNCHANGED << files, seq_result, parVars >>

\* processor.py 54-58: one iteration of the for loop
SeqStep ==
    /\ UNCHANGED << ingestVars, mergeVars, logVars, dashVars >>
    /\ seq_pc = "run"
    /\ seq_i < total
    /\ LET r == transformation_logic(files[seq_i + 1])
       IN  IF r.raised
           THEN /\ seq_pc' = "aborted"
                /\ UNCHANGED << seq_i, seq_dir, seq_written, seq_progress >>
           ELSE /\ seq_dir' = save(seq_dir, r.artifact)
                /\ seq_written' = IF r.ok THEN seq_written \cup {seq_i + 1}
                                  ELSE seq_written
                /\ seq_progress' = Append(seq_progress, Fraction(seq_i + 1, total))
                /\ seq_i' = seq_i + 1
                /\ UNCHANGED seq_pc
    /\ UNCHANGED << files, seq_result, parVars >>

\* processor.py 60: the loop is over
SeqReturn ==
    /\ UNCHANGED << ingestVars, mergeVars, logVars, dashVars >>
    /\ seq_pc = "run"
    /\ seq_i = total
    /\ seq_pc' = "done"
    /\ seq_result' = ElapsedSeconds
    /\ UNCHANGED << files, seq_i, seq_dir, seq_written, seq_progress, parVars >>

\* processor.py 64-68: process_parallel is called and the pool is created
ParStart ==
    /\ UNCHANGED << ingestVars, mergeVars, logVars, dashVars >>
    /\ seq_pc \in {"done", "aborted"}
    /\ par_pc = "idle"
    /\ par_pc' = IF total = 0 THEN "collect" ELSE "submit"
    /\ completed' = 0
    /\ UNCHANGED << files, seqVars, par_task, par_dir, par_written,
                    par_collected, par_progress, par_result >>

Running == { k \in 1..total : par_task[k] = "running" }

\* processor.py 69: executor.submit for the next file of the list
ParSubmit ==
    /\ UNCHANGED << ingestVars, mergeVars, logVars, dashVars >>
    /\ par_pc = "submit"
    /\ LET k == CHOOSE j \in 1..total :
                   par_task[j] = "new" /\ \A h \in 1..(j - 1) : par_task[h] # "new"
       IN  /\ par_task' = [par_task EXCEPT ![k] = "pending"]
           /\ par_pc' = IF k = total THEN "collect" ELSE "submit"
    /\ UNCHANGED << files, seqVars, par_dir, par_written, par_collected,
                    completed, par_progress, par_result >>

\* a free worker process takes the oldest queued task
WorkerStart ==
    /\ UNCHANGED << ingestVars, mergeVars, logVars, dashVars >>
    /\ Cardinality(Running) < NumWorkers
    /\ \E k \in 1..total :
        /\ par_task[k] = "pending"
        /\ \A h \in 1..(k - 1) : par_task[h] # "pending"
        /\ par_task' = [par_task EXCEPT ![k] = "running"]
    /\ UNCHANGED << files, seqVars, par_pc, par_dir, par_written,
                    par_collected, completed, par_progress, par_result >>

\* a worker process completes transformation_logic for its file; an
\* exception that left the function would be kept in the future
WorkerFinish ==
    /\ UNCHANGED << ingestVars, mergeVars, logVars, dashVars >>
    /\ \E k \in Running :
        LET r == transformation_logic(files[k])
        IN  /\ par_task' = [par_task EXCEPT ![k] = "finished"]
            /\ par_dir' = save(par_dir, r.artifact)
            /\ par_written' = IF r.ok THEN par_written \cup {k} ELSE par_written
    /\ UNCHANGED << files, seqVars, par_pc, par_collected, completed,
                    par_progress, par_result >>

Collected == { par_collected[j] : j \in 1..Len(par_collected) }

\* a loop over the futures in submission order that does not wait for them
Collect_in_submission_order ==
    /\ UNCHANGED << ingestVars, mergeVars, logVars, dashVars >>
    /\ par_pc = "collect"
    /\ Len(par_collected) < total
    /\ par_collected' = Append(par_collected, Len(par_collected) + 1)
    /\ completed' = completed + 1
    /\ par_progress' = Append(par_progress, Fraction(completed + 1, total))
    /\ UNCHANGED << files, seqVars, par_pc, par_task, par_dir, par_written,
                    par_result >>

\* processor.py 71-74: as_completed yields a finished future
Collect ==
    /\ UNCHANGED << ingestVars, mergeVars, logVars, dashVars >>
    /\ par_pc = "collect"
    /\ \E k \in 1..total :
        /\ par_task[k] = "finished"
        /\ k \notin Collected
        /\ par_collected' = Append(par_collected, k)
    /\ completed' = completed + 1
    /\ par_progress' = Append(par_progress, Fraction(completed + 1, total))
    /\ UNCHANGED << files, seqVars, par_pc, par_task, par_dir, par_written,
                    par_result >>

\* processor.py 68, 76: as_completed is exhausted, the pool is shut down
\* and process_parallel returns
ParReturn ==
    /\ UNCHANGED << ingestVars, mergeVars, logVars, dashVars >>
    /\ par_pc = "collect"
    /\ Collected = 1..total
    /\ par_pc' = "done"
    /\ par_result' = ElapsedSeconds
    /\ UNCHANGED << files, seqVars, par_task, par_dir, par_written,
                    par_collected, completed, par_progress >>

ProcNext ==
    \/ SeqStart
    \/ SeqStep
    \/ SeqReturn
    \/ ParStart
    \/ ParSubmit
    \/ WorkerStart
    \/ WorkerFinish
    \/ Collect
    \/ ParReturn

(***************************************************************************)
(* Properties of the two execution strategies.                             *)
(***************************************************************************)
BothReturned == seq_pc = "done" /\ par_pc = "done"

\* C2: for any list of staged files, process_sequential and
\* process_parallel leave the same set of artifacts with the same content
\* per artifact name, for every completion order of the parallel workers
\* (including inputs whose output names coincide).
C2_SequentialAndParallelLeaveSameArtifacts ==
    BothReturned => seq_dir = par_dir

GoodFiles == { k \in 1..total : files[k].fault = "none" }

\* C3: in both strategies, whatever subset of the files fails (missing
\* file, parse error, write error), every other file of the batch is still
\* transformed and its artifact written, and the strategy returns normally
\* instead of aborting the batch.
C3_FailuresAreIsolated ==
    /\ seq_pc # "aborted"
    /\ seq_pc = "done" => seq_written = GoodFiles
    /\ par_pc = "done" =>
          /\ par_written = GoodFiles
          /\ \A k \in 1..total : par_task[k] = "finished"
    /\ (seq_pc = "run" /\ seq_i < total) => ENABLED SeqStep
    /\ (par_pc = "collect" /\ Collected # 1..total) =>
          ENABLED (WorkerStart \/ WorkerFinish \/ Collect)

\* both strategies have returned on a list where a failing file comes
\* before a good one, and the good one's artifact was written by both
C3_Witness ==
    /\ BothReturned
    /\ \E a, b \in 1..total :
          /\ a < b
          /\ files[a].fault \in {"parse", "write"}
          /\ files[b].fault = "none"
          /\ b \in seq_written \cap par_written
          /\ \E x \in seq_dir : x.name = output_name(files[b].name)

\* C5: after a strategy run in which every transformation succeeds there
\* is exactly one artifact per staged file: distinct staged files never
\* map to the same output name, so no artifact is overwritten by another
\* file's transformation.
C5_OneArtifactPerStagedFile ==
    /\ (seq_pc = "done" /\ GoodFiles = 1..total) =>
          /\ Cardinality(seq_dir) = total
          /\ \A a, b \in 1..total :
                a # b => output_name(files[a].name) # output_name(files[b].name)
    /\ (par_pc = "done" /\ GoodFiles = 1..total) => Cardinality(par_dir) = total

(***************************************************************************)
(* Merge / export: natural_sort_key and create_merged_zip of dashboard.py. *)
(***************************************************************************)
\* the characters of the model's names and identifiers, in code point order
CodePoints ==
    <<"\n"," ","-",".","0","1","2","3","4","5","6","7","8","9",
      "A","B","C","D","E","F","G","H","I","J","K","L","M","N","O","P","Q","R",
      "S","T","U","V","W","X","Y","Z","_",
      "a","b","c","d","e","f","g","h","i","j","k","l","m","n","o","p","q","r",
      "s","t","u","v","w","x","y","z">>
Ord(ch) == CHOOSE k \in 1..Len(CodePoints) : CodePoints[k] = ch

DigitSeq == <<"0","1","2","3","4","5","6","7","8","9">>
IsDigit(ch) == ch \in Digits
DigitValue(ch) == (CHOOSE k \in 1..10 : DigitSeq[k] = ch) - 1

\* int("...") of a run of digits
RECURSIVE IntOf(_)
IntOf(ds) ==
    IF ds = <<>> THEN 0
    ELSE 10 * IntOf(SubSeq(ds, 1, Len(ds) - 1)) + DigitValue(ds[Len(ds)])

\* length of the longest prefix of s made of digits (d = TRUE) or of
\* non-digits (d = FALSE)
RunLength(s, d) ==
    CHOOSE n \in 0..Len(s) :
        /\ \A k \in 1..n : IsDigit(s[k]) = d
        /\ n = Len(s) \/ IsDigit(s[n + 1]) # d

TextPart(t) == [num |-> FALSE, text |-> t, val |-> 0]
NumPart(v) == [num |-> TRUE, text |-> <<>>, val |-> v]

\* a key that keeps the digit runs as text
RECURSIVE lexicographic_key(_)
lexicographic_key(s) ==
    LET n == RunLength(s, FALSE)
        rest == SubSeq(s, n + 1, Len(s))
        m == RunLength(rest, TRUE)
    IN  IF rest = <<>> THEN << TextPart(s) >>
        ELSE << TextPart(SubSeq(s, 1, n)), TextPart(SubSeq(rest, 1, m)) >>
             \o lexicographic_key(SubSeq(rest, m + 1, Len(rest)))

\* dashboard.py 14-18: re.split(r'(\d+)', text) with the digit runs turned
\* into integers: text, number, text, ..., text
RECURSIVE natural_sort_key(_)
natural_sort_key(s) ==
    LET n == RunLength(s, FALSE)
        rest == SubSeq(s, n + 1, Len(s))
        m == RunLength(rest, TRUE)
    IN  IF rest = <<>> THEN << TextPart(s) >>
        ELSE << TextPart(SubSeq(s, 1, n)), NumPart(IntOf(SubSeq(rest, 1, m))) >>
             \o natural_sort_key(SubSeq(rest, m + 1, Len(rest)))

\* str < str: by code points, a proper prefix first
TextLess(a, b) ==
    \E k \in 1..(Min(Len(a), Len(b)) + 1) :
        /\ \A j \in 1..(k - 1) : a[j] = b[j]
        /\ IF k > Len(a) THEN k <= Len(b)
           ELSE k <= Len(b) /\ Ord(a[k]) < Ord(b[k])

PartLess(x, y) ==
    IF x.num /\ y.num THEN x.val < y.val ELSE TextLess(x.text, y.text)

\* list < list of Python, on two keys
KeyLess(a, b) ==
    \E k \in 1..(Min(Len(a), Len(b)) + 1) :
        /\ \A j \in 1..(k - 1) : a[j] = b[j]
        /\ IF k > Len(a) THEN k <= Len(b)
           ELSE k <= Len(b) /\ PartLess(a[k], b[k])

\* list.sort on decorated elements [key, item]: stable insertion by key
RECURSIVE SortDecorated(_)
SortDecorated(s) ==
    IF Len(s) <= 1 THEN s
    ELSE LET front == SortDecorated(SubSeq(s, 1, Len(s) - 1))
             x == s[Len(s)]
             \* x goes after the last element that is not greater than x
             n == Cardinality({ k \in 1..Len(front) : ~KeyLess(x.key, front[k].key) })
         IN  SubSeq(front, 1, n) \o <<x>> \o SubSeq(front, n + 1, Len(front))

Undecorate(s) == [k \in 1..Len(s) |-> s[k].item]

\* an artifact of PROCESSED_DATA_DIR: its name, whether pd.read_csv raises
\* on it, and the table read otherwise
DirEntry(name, corrupt, table) == [name |-> name, corrupt |-> corrupt, table |-> table]

\* dashboard.py 70: all_files.sort(key=natural_sort_key(basename))
sort_files(found) ==
    Undecorate(SortDecorated(
        [k \in 1..Len(found) |->
            [key |-> natural_sort_key(found[k].name), item |-> found[k]]]))

\* dashboard.py 86-90: the rows ordered by the natural key of column c
sort_values(t, c) ==
    Table(t.columns,
          Undecorate(SortDecorated(
              [k \in 1..Len(t.rows) |->
                  [key |-> natural_sort_key(t.rows[k][c]), item |-> t.rows[k]]])))

HeaderLine(cells) == [header |-> TRUE, cells |-> cells]
DataLine(cells) == [header |-> FALSE, cells |-> cells]

\* df.to_csv(outfile, index=False, header=h): the lines appended
to_csv(t, h) ==
    (IF h THEN << HeaderLine(t.columns) >> ELSE <<>>)
    \o [r \in 1..Len(t.rows) |-> DataLine(t.rows[r])]

\* a loop body that clears first_file for every artifact it visits
merge_one_header_by_position(out, first, a) ==
    IF a.corrupt
    THEN [ok |-> FALSE, out |-> out, first |-> FALSE]
    ELSE LET t == IF HasColumn(a.table, "Transaction_ID")
                  THEN sort_values(a.table, ColumnIndex(a.table, "Transaction_ID"))
                  ELSE a.table
         IN  [ok |-> TRUE, out |-> out \o to_csv(t, first), first |-> FALSE]

\* dashboard.py 80-101: the body of the for loop for one artifact
merge_one(out, first, a) ==
    IF a.corrupt
    THEN [ok |-> FALSE, out |-> out, first |-> first]
    ELSE LET t == IF HasColumn(a.table, "Transaction_ID")
                  THEN sort_values(a.table, ColumnIndex(a.table, "Transaction_ID"))
                  ELSE a.table
         IN  [ok |-> TRUE, out |-> out \o to_csv(t, first), first |-> FALSE]

Name_processed_file_1 ==
    Processed_prefix \o <<"f","i","l","e","_","1",".","c","s","v">>
Name_processed_file_2 ==
    Processed_prefix \o <<"f","i","l","e","_","2",".","c","s","v">>
Name_processed_file_10 ==
    Processed_prefix \o <<"f","i","l","e","_","1","0",".","c","s","v">>
Name_processed_file_20 ==
    Processed_prefix \o <<"f","i","l","e","_","2","0",".","c","s","v">>
\* a name whose key is the key of processed_file_1.csv
Name_processed_file_01 ==
    Processed_prefix \o <<"f","i","l","e","_","0","1",".","c","s","v">>

\* the artifact written for a staged file named DATA.CSV
Name_processed_DATA_CSV ==
    Processed_prefix \o <<"D","A","T","A",".","C","S","V">>

\* what each artifact holds when it can be read
ArtifactTable(name) ==
    IF name = Name_processed_file_1
    THEN business_logic(TableOf(Name_a_csv))
    ELSE IF name = Name_processed_file_2
    THEN business_logic(TableOf(Name_a_json))
    ELSE IF name = Name_processed_file_10
    THEN business_logic(TableOf(Name_a_json_json))
    ELSE IF name = Name_processed_DATA_CSV
    THEN business_logic(TableOf(Name_a_csv_json))
    ELSE Table(<<"Transaction_ID", "Amount", "Tax_Amount", "Total_Amount">>, <<>>)

ArtifactNames ==
    { Name_processed_file_1, Name_processed_file_2, Name_processed_file_10,
      Name_processed_file_20, Name_processed_DATA_CSV, Name_processed_file_01 }
DirEntries ==
    { DirEntry(nm, c, ArtifactTable(nm)) : nm \in ArtifactNames, c \in BOOLEAN }

MaxArtifacts == 3

\* os.listdir: each name once, in any order
Listings ==
    { d \in UNION { [1..k -> DirEntries] : k \in 0..MaxArtifacts } :
        \A a, b \in 1..Len(d) : a # b => d[a].name # d[b].name }

MergeIdle ==
    /\ processed_dir = <<>>
    /\ merge_pc = "idle"
    /\ all_files = <<>>
    /\ merge_j = 1
    /\ first_file = TRUE
    /\ outfile = <<>>
    /\ appended = <<>>
    /\ skipped = <<>>
    /\ merge_result = "none"

MergeInit ==
    /\ processed_dir \in Listings
    /\ merge_pc = "list"
    /\ all_files = <<>>
    /\ merge_j = 1
    /\ first_file = TRUE
    /\ outfile = <<>>
    /\ appended = <<>>
    /\ skipped = <<>>
    /\ merge_result = "none"

\* the entries of a listing that satisfy f.endswith('.csv')
RECURSIVE CsvOnly(_)
CsvOnly(d) ==
    IF d = <<>> THEN <<>>
    ELSE (IF endswith(Head(d).name, Ext_csv) THEN <<Head(d)>> ELSE <<>>)
         \o CsvOnly(Tail(d))

\* dashboard.py 64-78: list and sort the artifacts, open the master file
MergeList ==
    /\ UNCHANGED << ingestVars, procVars, logVars, dashVars >>
    /\ merge_pc = "list"
    /\ LET found == CsvOnly(processed_dir)
       IN  IF found = <<>>
           THEN /\ merge_result' = "None"
                /\ merge_pc' = "done"
                /\ UNCHANGED << all_files, first_file, outfile >>
           ELSE /\ all_files' = sort_files(found)
                /\ first_file' = TRUE
                /\ outfile' = <<>>
                /\ merge_pc' = "loop"
                /\ UNCHANGED merge_result
    /\ merge_j' = 1
    /\ UNCHANGED << processed_dir, appended, skipped >>

\* dashboard.py 79-101: one iteration of the for loop
MergeAppend ==
    /\ UNCHANGED << ingestVars, procVars, logVars, dashVars >>
    /\ merge_pc = "loop"
    /\ merge_j <= Len(all_files)
    /\ LET a == all_files[merge_j]
           r == merge_one(outfile, first_file, a)
       IN  /\ outfile' = r.out
           /\ first_file' = r.first
           /\ appended' = IF r.ok THEN Append(appended, a) ELSE appended
           /\ skipped' = IF r.ok THEN skipped ELSE Append(skipped, a)
    /\ merge_j' = merge_j + 1
    /\ UNCHANGED << processed_dir, merge_pc, all_files, merge_result >>

\* dashboard.py 103-112: the master file is zipped and removed
MergeZip ==
    /\ UNCHANGED << ingestVars, procVars, logVars, dashVars >>
    /\ merge_pc = "loop"
    /\ merge_j > Len(all_files)
    /\ merge_result' = "Enterprise_Full_Report.zip"
    /\ merge_pc' = "done"
    /\ UNCHANGED << processed_dir, all_files, merge_j, first_file, outfile,
                    appended, skipped >>

MergeNext ==
    \/ MergeList
    \/ MergeAppend
    \/ MergeZip

(***************************************************************************)
(* Properties of the merge.                                                *)
(***************************************************************************)
Merged == merge_pc = "done" /\ merge_result = "Enterprise_Full_Report.zip"

HeaderLines == { k \in 1..Len(outfile) : outfile[k].header }
DataLines == { k \in 1..Len(outfile) : ~outfile[k].header }

RECURSIVE RowTotal(_)
RowTotal(as) ==
    IF as = <<>> THEN 0 ELSE Len(Head(as).table.rows) + RowTotal(Tail(as))

RowsAddUp ==
    /\ Cardinality(DataLines) = RowTotal(appended)
    /\ Len(appended) + Len(skipped) = Len(all_files)
    /\ \A k \in 1..Len(appended) : ~appended[k].corrupt
    /\ \A k \in 1..Len(skipped) : skipped[k].corrupt

\* C4 as claimed: after create_merged_zip, for any pattern of corrupt
\* artifacts, the merged dataset has exactly one header line and as many
\* data rows as the appended artifacts have together; skipped artifacts
\* contribute no rows.
C4_OneHeaderAndRowsAddUp ==
    Merged => (Cardinality(HeaderLines) = 1 /\ RowsAddUp)

\* C4 as amended: after create_merged_zip, for any pattern of corrupt
\* artifacts, the merged dataset has exactly one header line, its first
\* line, if at least one artifact was appended, and no line at all if every
\* artifact was skipped; its data-row count equals the sum of the row
\* counts of the appended artifacts; skipped artifacts contribute no rows.
C4_OneHeaderIfAnyAppendedAndRowsAddUp ==
    Merged =>
        /\ RowsAddUp
        /\ IF appended = <<>>
           THEN outfile = <<>>
           ELSE HeaderLines = {1} /\ outfile[1].cells = appended[1].table.columns

\* a merge whose first artifact in sort order was corrupt and skipped, and
\* that appended a later artifact with rows
C4_Witness ==
    /\ Merged
    /\ Len(all_files) >= 2
    /\ all_files[1].corrupt
    /\ appended # <<>>
    /\ Cardinality(DataLines) >= 1
    /\ HeaderLines = {1}
(***************************************************************************)
(* Concurrent calls of SecurityAuditor.log_event (security.py 36-41).      *)
(* Every call opens security_audit.jsonl in mode "a", puts its line into   *)
(* the buffer of its own file object and hands it to the operating system  *)
(* when the with block closes the file.  The code takes no lock.  Whether  *)
(* the append is one atomic step (O_APPEND on a local POSIX file system)   *)
(* or a seek to the end followed by a write (the C runtime of Windows, a   *)
(* network file system) depends on the platform.                           *)
(***************************************************************************)
NumCallers == 2
Callers == 1..NumCallers

Mark == <<"a", "b", "c", "d", "e", "f">>

\* json.dumps(event) + "\n" of caller c; the lines differ in length
Line(c) == <<"{">> \o [k \in 1..c |-> Mark[c]] \o <<"}", "\n">>

\* the line of an earlier inspection
EarlierLine == <<"{", "z", "z", "z", "z", "}", "\n">>

\* write(2) of data at an offset of the file
WriteAt(file, offset, data) ==
    SubSeq(file, 1, offset) \o data
    \o SubSeq(file, offset + Len(data) + 1, Len(file))

LogInit ==
    /\ append_atomic \in BOOLEAN
    /\ log_before \in { <<>>, EarlierLine }
    /\ log_file = log_before
    /\ log_pc = [c \in Callers |-> "call"]
    /\ log_buffer = [c \in Callers |-> <<>>]
    /\ log_offset = [c \in Callers |-> 0]

LogIdle ==
    /\ append_atomic = TRUE
    /\ log_before = <<>>
    /\ log_file = <<>>
    /\ log_pc = <<>>
    /\ log_buffer = <<>>
    /\ log_offset = <<>>

\* security.py 37: open(AUDIT_LOG_FILE, "a") succeeds
LogOpen(c) ==
    /\ UNCHANGED << ingestVars, procVars, mergeVars, dashVars >>
    /\ log_pc[c] = "call"
    /\ log_pc' = [log_pc EXCEPT ![c] = "opened"]
    /\ UNCHANGED << append_atomic, log_before, log_file, log_buffer, log_offset >>

\* security.py 37, 40-41: open raises; the exception is logged and dropped
LogOpenFails(c) ==
    /\ UNCHANGED << ingestVars, procVars, mergeVars, dashVars >>
    /\ log_pc[c] = "call"
    /\ log_pc' = [log_pc EXCEPT ![c] = "failed"]
    /\ UNCHANGED << append_atomic, log_before, log_file, log_buffer, log_offset >>

\* security.py 38: f.write puts the line into the buffer of the file object
LogWrite(c) ==
    /\ UNCHANGED << ingestVars, procVars, mergeVars, dashVars >>
    /\ log_pc[c] = "opened"
    /\ log_buffer' = [log_buffer EXCEPT ![c] = Line(c)]
    /\ log_pc' = [log_pc EXCEPT ![c] = "buffered"]
    /\ UNCHANGED << append_atomic, log_before, log_file, log_offset >>

\* leaving the with block flushes the buffer: an atomic append
LogFlushAppend(c) ==
    /\ UNCHANGED << ingestVars, procVars, mergeVars, dashVars >>
    /\ log_pc[c] = "buffered"
    /\ append_atomic
    /\ log_file' = log_file \o log_buffer[c]
    /\ log_pc' = [log_pc EXCEPT ![c] = "closed"]
    /\ UNCHANGED << append_atomic, log_before, log_buffer, log_offset >>

\* leaving the with block flushes the buffer: first the seek to the end
LogSeekEnd(c) ==
    /\ UNCHANGED << ingestVars, procVars, mergeVars, dashVars >>
    /\ log_pc[c] = "buffered"
    /\ ~append_atomic
    /\ log_offset' = [log_offset EXCEPT ![c] = Len(log_file)]
    /\ log_pc' = [log_pc EXCEPT ![c] = "at_end"]
    /\ UNCHANGED << append_atomic, log_before, log_file, log_buffer >>

\* then the write at the offset found
LogWriteAtOffset(c) ==
    /\ UNCHANGED << ingestVars, procVars, mergeVars, dashVars >>
    /\ log_pc[c] = "at_end"
    /\ log_file' = WriteAt(log_file, log_offset[c], log_buffer[c])
    /\ log_pc' = [log_pc EXCEPT ![c] = "closed"]
    /\ UNCHANGED << append_atomic, log_before, log_buffer, log_offset >>

LogNext ==
    \E c \in Callers :
        \/ LogOpen(c)
        \/ LogOpenFails(c)
        \/ LogWrite(c)
        \/ LogFlushAppend(c)
        \/ LogSeekEnd(c)
        \/ LogWriteAtOffset(c)

(***************************************************************************)
(* Properties of the audit log under concurrent appenders.                 *)
(***************************************************************************)
AllReturned == \A c \in Callers : log_pc[c] \in {"closed", "failed"}
Wrote == { c \in Callers : log_pc[c] = "closed" }

\* the orders in which the calls of a set can have reached the file
Orders(S) ==
    { o \in [1..Cardinality(S) -> S] : \A a, b \in DOMAIN o : a # b => o[a] # o[b] }

RECURSIVE Lines(_)
Lines(o) == IF o = <<>> THEN <<>> ELSE Line(Head(o)) \o Lines(Tail(o))

\* C14: when several log_event calls run concurrently, the audit log ends
\* up with exactly one complete JSON line per call (that could open the
\* file): no record is lost, no two records are interleaved within a line,
\* and lines written earlier are never modified or removed.
C14_ConcurrentAppendsKeepEveryLine ==
    /\ Len(log_file) >= Len(log_before)
    /\ SubSeq(log_file, 1, Len(log_before)) = log_before
    /\ AllReturned =>
          \E o \in Orders(Wrote) : log_file = log_before \o Lines(o)
(***************************************************************************)
(* render_dashboard run by several browser sessions on one workspace.      *)
(***************************************************************************)
NumSessions == 2
NumStaged == 2
Sessions == 1..NumSessions
\* the files of RAW_DATA_DIR, the same for every session
StagedFiles == 1..NumStaged

\* inside process_parallel or process_sequential
InStrategy == {"process_parallel", "benchmark_parallel", "process_sequential"}
Buttons == {"none", "prod_run", "comp_run"}

DashInit ==
    /\ run_pc = [s \in Sessions |-> "idle"]
    /\ todo = [s \in Sessions |-> {}]
    /\ processed = {}
    /\ merge_reads = {}

DashIdle ==
    /\ run_pc = <<>>
    /\ todo = <<>>
    /\ processed = {}
    /\ merge_reads = {}

\* dashboard.py 116-190: a session runs the script; with one of
\* the two buttons pressed it calls process_parallel on the staged files
DashRun(s) ==
    /\ UNCHANGED << ingestVars, procVars, mergeVars, logVars >>
    /\ run_pc[s] = "idle"
    /\ \E button \in Buttons :
          IF button = "none"
          THEN /\ run_pc' = [run_pc EXCEPT ![s] = "export"]
               /\ UNCHANGED todo
          ELSE /\ run_pc' = [run_pc EXCEPT ![s] =
                               IF button = "prod_run" THEN "process_parallel"
                               ELSE "benchmark_parallel"]
               /\ todo' = [todo EXCEPT ![s] = StagedFiles]
    /\ UNCHANGED << processed, merge_reads >>

\* one transformation of the running strategy call writes its artifact
DashTransform(s) ==
    /\ UNCHANGED << ingestVars, procVars, mergeVars, logVars >>
    /\ run_pc[s] \in InStrategy
    /\ \E f \in todo[s] :
          /\ processed' = processed \cup {f}
          /\ todo' = [todo EXCEPT ![s] = todo[s] \ {f}]
    /\ UNCHANGED << run_pc, merge_reads >>

\* the strategy call returns; the benchmark goes on with process_sequential
\* (dashboard.py 195)
DashStrategyReturns(s) ==
    /\ UNCHANGED << ingestVars, procVars, mergeVars, logVars >>
    /\ run_pc[s] \in InStrategy
    /\ todo[s] = {}
    /\ IF run_pc[s] = "benchmark_parallel"
       THEN /\ run_pc' = [run_pc EXCEPT ![s] = "process_sequential"]
            /\ todo' = [todo EXCEPT ![s] = StagedFiles]
       ELSE /\ run_pc' = [run_pc EXCEPT ![s] = "export"]
            /\ UNCHANGED todo
    /\ UNCHANGED << processed, merge_reads >>

\* dashboard.py 219-225: the export module lists the processed directory
\* and goes on to the merge when it is not empty
DashExport(s) ==
    /\ UNCHANGED << ingestVars, procVars, mergeVars, logVars >>
    /\ run_pc[s] = "export"
    /\ run_pc' = [run_pc EXCEPT ![s] =
                     IF processed # {} THEN "create_merged_zip" ELSE "idle"]
    /\ UNCHANGED << todo, processed, merge_reads >>

\* dashboard.py 235, 64: create_merged_zip lists the processed directory
DashMerge(s) ==
    /\ UNCHANGED << ingestVars, procVars, mergeVars, logVars >>
    /\ run_pc[s] = "create_merged_zip"
    /\ merge_reads' = merge_reads \cup
          { [session |-> s,
             running |-> \E t \in Sessions : run_pc[t] \in InStrategy,
             complete |-> processed = StagedFiles] }
    /\ run_pc' = [run_pc EXCEPT ![s] = "idle"]
    /\ UNCHANGED << todo, processed >>

DashNext ==
    \E s \in Sessions :
        \/ DashRun(s)
        \/ DashTransform(s)
        \/ DashStrategyReturns(s)
        \/ DashExport(s)
        \/ DashMerge(s)

\* C27: create_merged_zip reads the directory of processed artifacts only
\* when no transformation of the batch is still running: in every run of
\* render_dashboard, and across concurrent sessions that share the
\* workspace, the merge starts only after process_parallel /
\* process_sequential has returned for all submitted files.
C27_MergeReadsOnlyAfterStrategyReturned ==
    /\ \A s \in Sessions : run_pc[s] = "create_merged_zip" => todo[s] = {}
    /\ \A r \in merge_reads : ~r.running
(***************************************************************************)
(* Properties of the verdicts and of the audit events.                     *)
(***************************************************************************)
RanDeepScan(r) == r.layers = <<"naming", "size", "hash", "header", "scan">>

ScriptInFirstChunk(content) == contains(ScriptTag, Take(content, chunk_size))

ThreatRejection(r, signature) ==
    /\ ~r.safe
    /\ r.reason = "Malicious Payload Detected: "
    /\ r.detail = signature
    /\ RanDeepScan(r)

\* C11: a CSV that passes the naming, size, hash and header layers and
\* contains the substring <script> within its first 2 MiB always yields an
\* unsafe verdict whose reason names that signature.
C11_ScriptInFirstChunkRejected ==
    \A k \in 1..NumDone :
        (RanDeepScan(Done(k)) /\ ScriptInFirstChunk(Done(k).file.content))
        => ThreatRejection(Done(k), <<"<","s","c","r","i","p","t">>)

CleanVerdict(r) == r.safe /\ r.reason = "File is clean." /\ r.detail = <<>>

CleanEvent(r) ==
    /\ Len(r.events) = 1
    /\ r.events[1].status = "CLEAN"
    /\ r.events[1].filename = lower(r.file.name)

\* the claim's reading of a clean CSV: the content of valid_clean_data.csv
\* under a name that is not spoofed, with a declared size within the limit
CleanCsv(f) ==
    /\ f.content = Lit(Bytes_valid_clean_data)
    /\ ~SpoofedName(f.name)
    /\ f.size <= Limit200MiB

\* no layer has a reason to reject: name, declared size, stream, header
NoLayerRejects(r) ==
    /\ ~SpoofedName(r.file.name)
    /\ r.file.size <= Limit200MiB
    /\ ~r.file.closed
    /\ ~BeginsWithMZ(r.file.content)
    /\ ~startswith(r.file.content, ELF)
    /\ RanDeepScan(r)
    /\ \A j \in 1..Len(r.events) : r.events[j].status # "BLOCKED"

\* C12 as claimed: a clean CSV always yields the verdict (safe, "File is
\* clean.") together with an AuditEvent of status CLEAN, and the safe
\* verdict is returned only when no layer rejected.
C12_CleanCsvAdmittedAndLogged ==
    \A k \in 1..NumDone :
        /\ CleanCsv(Done(k).file) => (CleanVerdict(Done(k)) /\ CleanEvent(Done(k)))
        /\ Done(k).safe => (CleanVerdict(Done(k)) /\ NoLayerRejects(Done(k)))

\* C12 as amended: a clean CSV whose name the naming layer does not match
\* (a double extension followed by a line feed is matched too) and whose
\* stream can be read always yields the verdict (safe, "File is clean.");
\* the AuditEvent of status CLEAN is written when the audit log can be
\* written, and no event otherwise; the safe verdict is returned only when
\* no layer rejected.
C12_ReadableCleanCsvAdmitted ==
    \A k \in 1..NumDone :
        /\ (/\ CleanCsv(Done(k).file)
            /\ Done(k).file.name \in PlainNames
            /\ ~Done(k).file.closed)
           => /\ CleanVerdict(Done(k))
              /\ Done(k).writable => CleanEvent(Done(k))
              /\ ~Done(k).writable => Done(k).events = <<>>
        /\ Done(k).safe => (CleanVerdict(Done(k)) /\ NoLayerRejects(Done(k)))

\* the clean CSV was admitted with a declared size of exactly 200 MiB and
\* a stream handed over at its end; its CLEAN event was written
C12_Witness ==
    \E k \in 1..NumDone :
        /\ CleanCsv(Done(k).file)
        /\ Done(k).file.size = Limit200MiB
        /\ Done(k).file.pos # 0
        /\ CleanVerdict(Done(k))
        /\ CleanEvent(Done(k))

EventStatusMatches(r, e) ==
    /\ e.status \in {"CLEAN", "BLOCKED"}
    /\ e.status = "CLEAN" <=> r.safe

AuditReasonOf(reason) ==
    CASE reason = "Security Policy Violation: Double Extension Detected."
            -> "Double Extension Spoofing"
      [] reason = "File exceeds 200MB limit."
            -> "File Size Limit Exceeded"
      [] reason = "Critical: Executable header detected in non-executable file."
            -> "Malicious Header (MZ)"
      [] reason = "Critical: Linux binary header detected."
            -> "Malicious Header (ELF)"
      [] reason = "Malicious Payload Detected: "
            -> "Threat Signature Detected: "
      [] reason = "File is clean."
            -> "Passed all inspections"
      [] OTHER -> "(no audit event)"

VerdictReasons ==
    { "Security Policy Violation: Double Extension Detected.",
      "File exceeds 200MB limit.", "Hashing Failed: ",
      "Critical: Executable header detected in non-executable file.",
      "Critical: Linux binary header detected.",
      "Malicious Payload Detected: ", "File is clean." }

\* C15: if the write to the audit log fails during an inspection,
\* inspect_file still returns the verdict it returns when the write
\* succeeds: a logging failure never turns a clean file into a rejection
\* and never raises out of inspect_file.
C15_AuditFailureLeavesVerdict ==
    /\ \A a, b \in 1..NumDone :
          Done(a).file = Done(b).file => SameVerdict(Done(a), Done(b))
    /\ \A k \in 1..NumDone :
          /\ Done(k).reason \in VerdictReasons
          /\ ~Done(k).writable => Done(k).events = <<>>
          /\ (~Done(k).writable /\ CleanCsv(Done(k).file)
              /\ Done(k).file.name \in PlainNames /\ ~Done(k).file.closed)
             => CleanVerdict(Done(k))

\* the same clean file was inspected with a writable and with an
\* unwritable audit log, and admitted both times
C15_Witness ==
    \E a, b \in 1..NumDone :
        /\ Done(a).file = Done(b).file
        /\ CleanCsv(Done(a).file)
        /\ Done(a).writable
        /\ Len(Done(a).events) = 1
        /\ ~Done(b).writable
        /\ Done(b).events = <<>>
        /\ Done(a).safe
        /\ Done(b).safe
(***************************************************************************)
(* Properties of the artifacts and of what the strategies return.          *)
(***************************************************************************)
\* no other file of the list is written under the output name of file k
UniqueOutput(k) ==
    \A j \in 1..total :
        j # k => output_name(files[j].name) # output_name(files[k].name)

\* the file exists, can be parsed and its artifact could be written
Readable(f) == f.fault \in {"none", "amount_text"}

\* the Amount of row r of staged file f is a number
NumericAmount(f, r) ==
    f.fault = "amount_text" =>
        LET cell == f.table.rows[r][ColumnIndex(f.table, "Amount")]
        IN  cell # <<>> /\ \A k \in 1..Len(cell) : IsDigit(cell[k])

Abs(x) == IF x < 0 THEN -x ELSE x

\* row r of artifact table t: the tax is a nearest cent to 18% of the
\* amount, the total is amount + tax, and 1000.00 gives 180.00 / 1180.00
RowTaxed(t, r) ==
    /\ HasColumn(t, "Amount")
    /\ HasColumn(t, "Tax_Amount")
    /\ HasColumn(t, "Total_Amount")
    /\ r <= Len(t.rows)
    /\ LET amount == t.rows[r][ColumnIndex(t, "Amount")]
           tax == t.rows[r][ColumnIndex(t, "Tax_Amount")]
           tot == t.rows[r][ColumnIndex(t, "Total_Amount")]
       IN  /\ Abs(100 * tax - 18 * amount) <= 50
           /\ tot = amount + tax
           /\ tot - amount = tax
           /\ amount = 100000 => (tax = 18000 /\ tot = 118000)

TaxedIn(dir, k, r) ==
    \E x \in dir : x.name = output_name(files[k].name) /\ RowTaxed(x.table, r)

\* C16 as claimed: for every row with a numeric Amount, transformation_logic
\* writes Tax_Amount = Amount * 0.18 rounded to 2 decimals and Total_Amount
\* = Amount + Tax_Amount rounded to 2 decimals; Amount = 1000 gives 180.00
\* and 1180.00, and Total_Amount - Amount = Tax_Amount exactly.
C16_TaxAndTotalPerNumericRow ==
    \A k \in 1..total :
        (Readable(files[k]) /\ HasColumn(files[k].table, "Amount") /\ UniqueOutput(k))
        => \A r \in 1..Len(files[k].table.rows) :
              NumericAmount(files[k], r) =>
                  /\ seq_pc = "done" => TaxedIn(seq_dir, k, r)
                  /\ par_pc = "done" => TaxedIn(par_dir, k, r)

\* C16 as amended: for every row of a file whose Amount column is numeric
\* in every row, transformation_logic writes Tax_Amount = Amount * 0.18
\* rounded to a nearest cent and Total_Amount = Amount + Tax_Amount;
\* Amount = 1000 gives 180.00 and 1180.00, and Total_Amount - Amount =
\* Tax_Amount exactly.  A file with a non-numeric Amount in any row fails
\* as a whole: no artifact is written, also not for its numeric rows.
C16_TaxAndTotalPerNumericFile ==
    \A k \in 1..total :
        /\ (files[k].fault = "none" /\ HasColumn(files[k].table, "Amount")
            /\ UniqueOutput(k))
           => \A r \in 1..Len(files[k].table.rows) :
                 /\ seq_pc = "done" => TaxedIn(seq_dir, k, r)
                 /\ par_pc = "done" => TaxedIn(par_dir, k, r)
        /\ (files[k].fault = "amount_text" /\ UniqueOutput(k))
           => \A x \in seq_dir \cup par_dir : x.name # output_name(files[k].name)

\* both strategies have written the artifact of a.csv, with 180.00 for
\* 1000.00 and 1.03 for 5.75, next to a file with a non-numeric Amount
C16_Witness ==
    /\ BothReturned
    /\ \E k, m \in 1..total :
          /\ files[k].name = Name_a_csv
          /\ files[m].fault = "amount_text"
          /\ NumericAmount(files[m], 1)
          /\ \E x \in seq_dir \cap par_dir :
                /\ x.name = output_name(Name_a_csv)
                /\ x.table.rows[1][2] = 100000
                /\ x.table.rows[1][ColumnIndex(x.table, "Tax_Amount")] = 18000
                /\ x.table.rows[2][2] = 575
                /\ x.table.rows[2][ColumnIndex(x.table, "Tax_Amount")] = 103

ComputedColumns == {"Tax_Amount", "Total_Amount"}

\* table t has a column, not one of source table s and not a computed one,
\* that holds the source file's name in every row
ProvenanceColumn(t, s, name) ==
    \E c \in 1..Len(t.columns) :
        /\ ~HasColumn(s, t.columns[c])
        /\ t.columns[c] \notin ComputedColumns
        /\ \A r \in 1..Len(t.rows) : t.rows[r][c] = name

\* table t is source table s with one column added at the end
PassedThrough(t, s) ==
    /\ Len(t.columns) = Len(s.columns) + 1
    /\ SubSeq(t.columns, 1, Len(s.columns)) = s.columns
    /\ Len(t.rows) = Len(s.rows)
    /\ \A r \in 1..Len(s.rows) : SubSeq(t.rows[r], 1, Len(s.columns)) = s.rows[r]

\* C17: every ProcessedArtifact written by transformation_logic contains a
\* provenance column naming its source file; a table without an Amount
\* column passes through with its original columns and rows unchanged
\* apart from that added provenance column.
C17_ArtifactsCarryProvenance ==
    seq_pc = "done" =>
        \A k \in seq_written :
            UniqueOutput(k) =>
                \E x \in seq_dir :
                    /\ x.name = output_name(files[k].name)
                    /\ ProvenanceColumn(x.table, files[k].table, files[k].name)
                    /\ ~HasColumn(files[k].table, "Amount")
                          => PassedThrough(x.table, files[k].table)

\* the entries of a results summary, if the value returned is one
SummaryEntries(result) ==
    IF result.kind = "summary" THEN result.entries ELSE {}

FailureReported(result, k) ==
    \E e \in SummaryEntries(result) : e.file = files[k].name /\ e.message # ""

\* C20: after process_sequential or process_parallel returns, the caller
\* holds a results summary that identifies each file whose transformation
\* failed together with its failure message.
C20_FailuresAreReportedToCaller ==
    /\ seq_pc = "done" =>
          \A k \in (1..total) \ seq_written : FailureReported(seq_result, k)
    /\ par_pc = "done" =>
          \A k \in (1..total) \ par_written : FailureReported(par_result, k)

(***************************************************************************)
(* Properties of the merged dataset and of the merge report.               *)
(***************************************************************************)
ColumnSet(columns) == { columns[k] : k \in 1..Len(columns) }

\* the number of lines of the merged file before the rows of appended[k]
FirstLineOf(k) == 1 + RowTotal(SubSeq(appended, 1, k - 1))

\* the rows of appended[k] lie under their own column names: each line has
\* one cell per column of the artifact, and the header names that column
\* at the cell's position
RowsUnderOwnColumns(k) ==
    LET t == appended[k].table
        header == outfile[1].cells
    IN  /\ \A p \in 1..Len(t.columns) :
              p <= Len(header) /\ header[p] = t.columns[p]
        /\ \A r \in 1..Len(t.rows) :
              Len(outfile[FirstLineOf(k) + r].cells) = Len(t.columns)

\* C18: when merged artifacts have different column sets, the merged
\* dataset's column set is the union of all artifacts' columns and every
\* row's values stay under their own column names, with missing values
\* left empty: no column is dropped or shifted under another header.
C18_ColumnsAreUnionAndAligned ==
    (Merged /\ appended # <<>>) =>
        /\ outfile[1].header
        /\ ColumnSet(outfile[1].cells)
              = UNION { ColumnSet(appended[k].table.columns) : k \in 1..Len(appended) }
        /\ \A k \in 1..Len(appended) : RowsUnderOwnColumns(k)

Elements(s) == { s[k] : k \in 1..Len(s) }

RECURSIVE Readable_in_order(_)
Readable_in_order(as) ==
    IF as = <<>> THEN <<>>
    ELSE (IF Head(as).corrupt THEN <<>> ELSE <<Head(as)>>)
         \o Readable_in_order(Tail(as))

\* the skipped artifacts that the value returned by create_merged_zip
\* lists: it is None or the path of the zip file, which list none
ReportedSkips(result) ==
    IF result \in {"none", "None", "Enterprise_Full_Report.zip"}
    THEN {}
    ELSE result.skipped

\* C19: during create_merged_zip an artifact that cannot be read is
\* skipped, all remaining artifacts are still appended in order, and every
\* artifact in the directory ends up either merged or recorded as skipped
\* with its identity and the reason, the skipped artifacts being listed in
\* the merge's final report.
C19_SkippedArtifactsAreReported ==
    merge_pc = "done" =>
        /\ Merged => appended = Readable_in_order(all_files)
        /\ \A d \in Elements(processed_dir) :
              d \in Elements(appended) \/ d \in Elements(skipped)
        /\ \A k \in 1..Len(skipped) :
              skipped[k].name \in ReportedSkips(merge_result)
(***************************************************************************)
(* Properties of the merge order.                                          *)
(***************************************************************************)
\* the listings that hold the entries of listing d in another order
Reorderings(d) ==
    { [k \in 1..Len(d) |-> d[o[k]]] :
        o \in { f \in [1..Len(d) -> 1..Len(d)] :
                  \A a, b \in 1..Len(d) : a # b => f[a] # f[b] } }

PositionIn(s, name) == CHOOSE k \in 1..Len(s) : s[k].name = name
Listed(s, name) == \E k \in 1..Len(s) : s[k].name = name
Before(s, a, b) ==
    (Listed(s, a) /\ Listed(s, b)) => PositionIn(s, a) < PositionIn(s, b)

\* appended and skipped together are all_files, each in the order of
\* all_files
InOrderOf(sub, s) ==
    \A a, b \in 1..Len(sub) :
        a < b => PositionIn(s, sub[a].name) < PositionIn(s, sub[b].name)

\* C21: natural_sort_key orders names by comparing embedded digit runs as
\* integers (file_2.csv before file_10.csv before file_20.csv), and
\* create_merged_zip appends artifacts to the merged output in exactly
\* that order, independent of the order in which the directory listing
\* returns them.
C21_MergeOrderIsNaturalAndListingIndependent ==
    merge_pc \in {"loop", "done"} =>
        /\ Before(all_files, Name_processed_file_2, Name_processed_file_10)
        /\ Before(all_files, Name_processed_file_10, Name_processed_file_20)
        /\ Before(all_files, Name_processed_file_1, Name_processed_file_2)
        /\ \A a, b \in 1..Len(all_files) :
              a < b => ~KeyLess(natural_sort_key(all_files[b].name),
                                natural_sort_key(all_files[a].name))
        /\ InOrderOf(appended, all_files)
        /\ \A d \in Reorderings(processed_dir) :
              sort_files(CsvOnly(d)) = all_files
(***************************************************************************)
(* The heuristic suspicion score of the bounded prefix.                    *)
(***************************************************************************)
upper_char(ch) ==
    IF \E k \in 1..26 : LowerCase[k] = ch
    THEN UpperCase[CHOOSE k \in 1..26 : LowerCase[k] = ch]
    ELSE ch

\* str.isalnum() on one character
isalnum(ch) == ch \in Digits \/ \E k \in 1..26 : ch \in {LowerCase[k], UpperCase[k]}

\* the characters that are not counted as special although not alphanumeric
PLAIN_PUNCTUATION == {" ", ",", ".", "_", "-", ":", "/", "\\", "\n", "\r", "\t"}
WHITESPACE == {" ", "\n", "\r", "\t"}

special_chars(text) ==
    Cardinality({ k \in 1..Len(text) :
                    ~isalnum(text[k]) /\ text[k] \notin PLAIN_PUNCTUATION })

\* the class [A-Za-z0-9+/]
base64_char(ch) == isalnum(ch) \/ ch \in {"+", "/"}

\* total length of the matches of [A-Za-z0-9+/]{40,}={0,2}: every maximal run
\* of the class that has 40 characters or more, with up to two '=' after it
BASE64_MIN == 40
base64_like(text) ==
    LET n == Len(text)
        isB(k) == k >= 1 /\ k <= n /\ base64_char(text[k])
        starts == { k \in 1..n : isB(k) /\ ~isB(k - 1) }
        ends == { k \in 1..n : isB(k) /\ ~isB(k + 1) }
        endOf(k) == CHOOSE e \in ends : e >= k /\ \A f \in ends : f >= k => e <= f
        pad(e) == IF e + 1 <= n /\ text[e + 1] = "="
                  THEN (IF e + 2 <= n /\ text[e + 2] = "=" THEN 2 ELSE 1)
                  ELSE 0
        len(k) == IF endOf(k) - k + 1 >= BASE64_MIN
                  THEN endOf(k) - k + 1 + pad(endOf(k)) ELSE 0
        RECURSIVE sum(_)
        sum(S) == IF S = {} THEN 0
                  ELSE LET k == CHOOSE x \in S : TRUE IN len(k) + sum(S \ {k})
    IN  sum(starts)

\* str.count(keyword): the keywords cannot overlap themselves
count(text, keyword) ==
    Cardinality({ k \in 1..(Len(text) - Len(keyword) + 1) :
                    \A j \in 1..Len(keyword) : text[k + j - 1] = keyword[j] })

sql_keywords ==
    << <<"S","E","L","E","C","T">>, <<"I","N","S","E","R","T">>,
       <<"U","P","D","A","T","E">>, <<"D","E","L","E","T","E">>,
       <<"D","R","O","P">>, <<"C","R","E","A","T","E">>,
       <<"A","L","T","E","R">>, <<"U","N","I","O","N">> >>
script_keywords ==
    << <<"<","S","C","R","I","P","T">>, <<"O","N","E","R","R","O","R">>,
       <<"O","N","L","O","A","D">>, <<"E","V","A","L","(">>,
       <<"F","U","N","C","T","I","O","N","(">>,
       <<"X","M","L","H","T","T","P","R","E","Q","U","E","S","T">> >>

RECURSIVE hits(_, _, _)
hits(text, keywords, k) ==
    IF k > Len(keywords) THEN 0
    ELSE count(text, keywords[k]) + hits(text, keywords, k + 1)

\* the four weights, in hundredths
W_SPECIAL == 35
W_BASE64 == 25
W_SQL == 20
W_SCRIPT == 20
SQL_NORM == 10
SCRIPT_NORM == 5

\* _heuristic_suspicious_score(start_content) >= threshold / 100, both
\* sides multiplied by 100 * total_len * (total_len + 1) so that the
\* comparison is one of integers
heuristic_score_at_least(start_content, threshold) ==
    LET text == Expand(start_content, CLen(start_content))
        total_len == Len(text)
        upper_text == [k \in 1..total_len |-> upper_char(text[k])]
        sql_hits == Min(hits(upper_text, sql_keywords, 1), SQL_NORM)
        script_hits == Min(hits(upper_text, script_keywords, 1), SCRIPT_NORM)
        b64 == Min(base64_like(text), total_len + 1)
    IN  IF \A k \in 1..total_len : text[k] \in WHITESPACE
        THEN threshold <= 0
        ELSE W_SPECIAL * special_chars(text) * (total_len + 1)
               + W_BASE64 * b64 * total_len
               + ((W_SQL \div SQL_NORM) * sql_hits
                    + (W_SCRIPT \div SCRIPT_NORM) * script_hits)
                 * total_len * (total_len + 1)
             >= threshold * total_len * (total_len + 1)

\* the threshold of the heuristic layer, in hundredths
HEURISTIC_THRESHOLD == 75

\* the bounded prefix the score is computed on
startcontent(content) == Take(content, HEADER_SIZE)

Suspicious(content) ==
    heuristic_score_at_least(startcontent(content), HEURISTIC_THRESHOLD)

HeuristicRejection(r) ==
    /\ ~r.safe
    /\ r.reason = "Heuristic anomaly detected (score="

\* C22: a file whose bounded prefix has a heuristic suspicion score >= 0.75
\* is always rejected, with the score reported in the reason string.
C22_SuspiciousPrefixRejected ==
    \A k \in 1..NumDone :
        (\/ Done(k).safe
         \/ /\ RanDeepScan(Done(k))
            /\ Done(k).reason # "Malicious Payload Detected: "
            /\ ~HeuristicRejection(Done(k)))
        => ~Suspicious(Done(k).file.content)

(***************************************************************************)
(* Layer order and short-circuit.                                          *)
(***************************************************************************)
RejectedBy(r, layer) ==
    /\ ~r.safe
    /\ r.layers # <<>>
    /\ r.layers[Len(r.layers)] = layer

\* the reason belongs to the layer evaluated last, and every layer before
\* it had nothing to reject
ReasonOfLastLayer(r) ==
    /\ RejectedBy(r, "naming") => NamingRejection(r) /\ double_extension(lower(r.file.name))
    /\ RejectedBy(r, "size") =>
          /\ SizeRejection(r)
          /\ ~double_extension(lower(r.file.name)) /\ r.file.size > Limit200MiB
    /\ RejectedBy(r, "hash") =>
          /\ HashRejection(r)
          /\ ~double_extension(lower(r.file.name)) /\ r.file.size <= Limit200MiB
          /\ r.file.closed
    /\ RejectedBy(r, "header") =>
          /\ \/ HeaderRejection(r) /\ BeginsWithMZ(r.file.content)
             \/ /\ r.reason = "Critical: Linux binary header detected."
                /\ startswith(r.file.content, ELF)
          /\ ~double_extension(lower(r.file.name)) /\ r.file.size <= Limit200MiB
          /\ ~r.file.closed
    /\ RejectedBy(r, "scan") =>
          /\ r.reason = "Malicious Payload Detected: "
          /\ \E s \in 1..Len(THREAT_SIGNATURES) : r.detail = THREAT_SIGNATURES[s]
          /\ ~double_extension(lower(r.file.name)) /\ r.file.size <= Limit200MiB
          /\ ~r.file.closed
          /\ ~BeginsWithMZ(r.file.content) /\ ~startswith(r.file.content, ELF)
    /\ RejectedBy(r, "heuristic") => HeuristicRejection(r)

IsPrefix(s, t) == Len(s) <= Len(t) /\ SubSeq(t, 1, Len(s)) = s

LAYER_ORDER == <<"naming", "size", "hash", "header", "scan", "heuristic">>

\* C23: inspect_file evaluates its layers in the strict order naming policy,
\* size policy, integrity hash, header verification, deep signature scan,
\* heuristic scoring, and short-circuits: the reason of the verdict is that
\* of the first layer that rejects, no later layer is evaluated after a
\* rejection, and a file is admitted only after all the layers were
\* evaluated.
C23_LayersInStrictOrderShortCircuit ==
    /\ IsPrefix(layers, LAYER_ORDER)
    /\ \A k \in 1..NumDone :
          /\ IsPrefix(Done(k).layers, LAYER_ORDER)
          /\ Done(k).layers # <<>>
          /\ ReasonOfLastLayer(Done(k))
          /\ Done(k).safe => Done(k).layers = LAYER_ORDER

(***************************************************************************)
(* Coverage of the deep signature scan.                                    *)
(***************************************************************************)
HasSignature(content) ==
    \E s \in 1..Len(THREAT_SIGNATURES) : contains(THREAT_SIGNATURES[s], content)

NumChunks(content) == (CLen(content) + chunk_size - 1) \div chunk_size
Chunk(content, j) == read(content, (j - 1) * chunk_size, chunk_size)

\* reads issued by an inspection that stops at chunk j of the scan: the
\* reads of calculate_hash, the header read, j chunk reads
ReadsUpToChunk(content, j) == calculate_hash(content, 0).reads + 1 + j

\* C24: the deep signature scan covers the entire content in bounded
\* chunks: if any signature of the list occurs at any offset of the content,
\* inside one chunk or across the boundary of two consecutive chunks,
\* inspect_file rejects the file; and the scan reads no further chunk after
\* the first match.
C24_ScanCoversWholeContent ==
    \A k \in 1..NumDone :
        RanDeepScan(Done(k)) =>
            /\ HasSignature(Done(k).file.content) =>
                  /\ ~Done(k).safe
                  /\ Done(k).reason = "Malicious Payload Detected: "
            /\ ~Done(k).safe =>
                  \E j \in 1..NumChunks(Done(k).file.content) :
                      /\ first_signature(Chunk(Done(k).file.content, j)) # 0
                      /\ \A h \in 1..(j - 1) :
                            first_signature(Chunk(Done(k).file.content, h)) = 0
                      /\ Done(k).reads = ReadsUpToChunk(Done(k).file.content, j)

\* the loop makes progress: while it runs, the bytes counted are the bytes
\* read, and every iteration that does not leave the loop counts a
\* non-empty chunk, so that it is left after at most NumChunks + 1 reads
ScanLoopBounded ==
    pc = "scan" =>
        /\ bytes_read = pos
        /\ pos <= CLen(cur.content)
        /\ pos % chunk_size = 0 \/ pos = CLen(cur.content)
        /\ reads <= ReadsUpToChunk(cur.content, NumChunks(cur.content))

\* C30: the read loop of the deep scan always terminates, and when it ends
\* without a match every byte of the stream up to its end has been
\* examined, whatever the declared size is relative to the length of the
\* content (smaller, equal, larger).
C30_ScanExaminesEveryByteWhateverSize ==
    /\ ScanLoopBounded
    /\ \A k \in 1..NumDone :
          (RanDeepScan(Done(k)) /\ Done(k).reason # "Malicious Payload Detected: ")
          => Done(k).bytes_read = CLen(Done(k).file.content)
(***************************************************************************)
(* Progress reporting of the two execution strategies.                     *)
(***************************************************************************)
Finished == { k \in 1..total : par_task[k] = "finished" }
Submitted == { k \in 1..total : par_task[k] # "new" }

NoDuplicates(s) == \A a, b \in 1..Len(s) : a # b => s[a] # s[b]

\* C25: in process_parallel every file is submitted exactly once, the
\* progress callback is invoked exactly total times, its k-th invocation
\* carries the fraction k/total and happens only after at least k submitted
\* tasks have completed (in completion order, not submission order), and
\* process_parallel returns only after all submitted tasks have completed.
C25_ParallelProgressFollowsCompletion ==
    /\ par_pc = "submit" => \E n \in 0..(total - 1) : Submitted = 1..n
    /\ par_pc \in {"collect", "done"} => Submitted = 1..total
    /\ Len(par_progress) = completed
    /\ Len(par_collected) = completed
    /\ \A k \in 1..Len(par_progress) : par_progress[k] = Fraction(k, total)
    /\ Len(par_progress) <= Cardinality(Finished)
    /\ NoDuplicates(par_collected)
    /\ \A k \in 1..Len(par_collected) : par_collected[k] \in Finished
    /\ par_pc = "done" =>
          /\ Finished = 1..total
          /\ Len(par_progress) = total

\* both files are reported, the second of the list first
C25_Witness ==
    /\ par_pc = "done"
    /\ total = 2
    /\ par_collected = <<2, 1>>
    /\ par_progress = << Fraction(1, 2), Fraction(2, 2) >>

\* a/b < c/d for positive denominators
FractionLess(x, y) == x.num * y.den < y.num * x.den

\* C26: process_sequential transforms the files strictly in input order,
\* one at a time, and invokes the progress callback after each file with
\* the fraction (i+1)/total, so that the reported fractions are strictly
\* increasing and the last one is 1; with an empty list of files it returns
\* without invoking the callback.
C26_SequentialProgressInInputOrder ==
    /\ seq_pc \in {"run", "done"} =>
          /\ Len(seq_progress) = seq_i
          /\ seq_written = GoodFiles \cap 1..seq_i
    /\ \A k \in 1..Len(seq_progress) : seq_progress[k] = Fraction(k, total)
    /\ \A a, b \in 1..Len(seq_progress) :
          a < b => FractionLess(seq_progress[a], seq_progress[b])
    /\ seq_pc = "done" =>
          /\ Len(seq_progress) = total
          /\ seq_result # NotReturned
          /\ total > 0 => seq_progress[total].num = seq_progress[total].den
          /\ total = 0 => seq_progress = <<>>

C26_Witness ==
    /\ seq_pc = "done"
    /\ total = 2
    /\ seq_progress = << Fraction(1, 2), Fraction(2, 2) >>
    /\ seq_written = {1, 2}
(***************************************************************************)
(* The staging directory after save_uploaded_files.                        *)
(***************************************************************************)
\* the characters sanitize_filename keeps
FILENAME_CHARS ==
    { LowerCase[k] : k \in 1..26 } \cup { UpperCase[k] : k \in 1..26 }
    \cup Digits \cup {"_", ".", "-"}

\* str.replace('..', '')
RECURSIVE remove_dotdot(_)
remove_dotdot(s) ==
    IF Len(s) < 2 THEN s
    ELSE IF s[1] = "." /\ s[2] = "." THEN remove_dotdot(SubSeq(s, 3, Len(s)))
    ELSE <<s[1]>> \o remove_dotdot(Tail(s))

\* sanitize_filename of the earlier dashboard
sanitize_filename(name) ==
    LET clean_name ==
            remove_dotdot([k \in 1..Len(name) |->
                              IF name[k] \in FILENAME_CHARS THEN name[k] ELSE "_"])
    IN  IF clean_name = <<>>
        THEN <<"u","p","l","o","a","d","e","d","_","f","i","l","e","_",
               "s","e","c","u","r","e">>
        ELSE clean_name

SafeFiles == { k \in 1..NumDone : Done(k).safe }

StagedAs(k) ==
    [name |-> sanitize_filename(Done(k).file.name),
     content |-> Done(k).file.content]

\* C28: after save_uploaded_files completes for a batch, the staging
\* directory contains exactly one file per file of this batch that received
\* a safe verdict, each stored under its sanitized name, nothing from
\* rejected files or from earlier batches, and the returned count equals
\* the number of files present in staging (also when two uploaded files
\* share a name).
C28_StagingHoldsExactlyTheSafeFiles ==
    pc = "done" =>
        /\ NumDone = Len(uploaded_files)
        /\ Cardinality(raw_dir) = Cardinality(SafeFiles)
        /\ raw_dir = { StagedAs(k) : k \in SafeFiles }
        /\ saved_count = Cardinality(raw_dir)
(***************************************************************************)
(* Read position of the content stream when inspect_file returns.          *)
(***************************************************************************)
\* the inspection has read the stream: it got as far as the header layer
ReadTheStream(r) == Len(r.layers) >= 4

\* C29 as claimed: whenever inspect_file returns, on every path (each
\* rejection layer and the clean path), the read position of the content
\* stream is 0; calculate_hash leaves the position at 0 and returns the
\* same hash whatever the position was on entry.
C29_PositionZeroOnEveryPath ==
    /\ \A k \in 1..NumDone : Done(k).pos = 0
    /\ pc = "header" => pos = 0 /\ file_hash = sha256(cur.content)

\* C29 as amended: whenever inspect_file returns after it has read the
\* stream (header rejection, threat rejection, clean path) the read
\* position is 0, so every admitted file is handed on at position 0; a
\* naming or size rejection never touches the stream and leaves the
\* position where it was on entry, and a hashing failure leaves it too;
\* calculate_hash leaves the position at 0 and returns the hash of the
\* whole content whatever the position was on entry.
C29_PositionZeroAfterAnyRead ==
    /\ \A k \in 1..NumDone :
          /\ ReadTheStream(Done(k)) =>
                /\ Done(k).pos = 0
                /\ Done(k).hash = sha256(Done(k).file.content)
          /\ Done(k).safe => ReadTheStream(Done(k))
          /\ ~ReadTheStream(Done(k)) =>
                /\ ~Done(k).safe
                /\ Done(k).pos = Done(k).file.pos
                /\ Done(k).reads = 0
    /\ pc = "header" => pos = 0 /\ file_hash = sha256(cur.content)

\* a file admitted and a file rejected at the size layer, both handed over
\* with the stream at its end
C29_Witness ==
    \E a, b \in 1..NumDone :
        /\ Done(a).safe
        /\ Done(a).file.pos > 0
        /\ Done(a).pos = 0
        /\ Done(a).hash = sha256(Done(a).file.content)
        /\ SizeRejection(Done(b))
        /\ Done(b).file.pos > 0
        /\ Done(b).pos = Done(b).file.pos

(***************************************************************************)
(* Specifications: one per component; the other components stay idle.      *)
(***************************************************************************)
IngestIdle ==
    /\ uploaded_files = <<>>
    /\ auditWritable = TRUE
    /\ raw_dir = {}
    /\ audit_log = <<>>
    /\ pc = "idle"
    /\ i = 1
    /\ saved_count = 0
    /\ rejected_count = 0
    /\ pos = 0
    /\ reads = 0
    /\ seeks = 0
    /\ layers = <<>>
    /\ logged = 0
    /\ file_hash = NA
    /\ bytes_read = 0
    /\ found_threat = FALSE
    /\ threat_detail = <<>>
    /\ verdict = NoVerdict
    /\ inspections = <<>>

\* ingestion: save_uploaded_files with inspect_file
Init == IngestInit /\ ProcIdle /\ MergeIdle /\ LogIdle /\ DashIdle
Next == IngestNext
Spec == Init /\ [][Next]_vars

\* ingestion of a batch that holds one upload twice, with an audit log
\* that may be unwritable
InitAuditFault == IngestFaultInit /\ ProcIdle /\ MergeIdle /\ LogIdle /\ DashIdle
NextAuditFault == IngestNext \/ AuditLogToggle
SpecAuditFault == InitAuditFault /\ [][NextAuditFault]_vars

\* transformation: process_sequential and process_parallel on one list
InitProcess == IngestIdle /\ ProcInit /\ MergeIdle /\ LogIdle /\ DashIdle
NextProcess == ProcNext
SpecProcess == InitProcess /\ [][NextProcess]_vars

\* merge: create_merged_zip on one directory listing
InitMerge == IngestIdle /\ ProcIdle /\ MergeInit /\ LogIdle /\ DashIdle
NextMerge == MergeNext
SpecMerge == InitMerge /\ [][NextMerge]_vars

\* concurrent appenders of the audit log
InitAudit == IngestIdle /\ ProcIdle /\ MergeIdle /\ LogInit /\ DashIdle
NextAudit == LogNext
SpecAudit == InitAudit /\ [][NextAudit]_vars

\* dashboard sessions that share the workspace
InitDashboard == IngestIdle /\ ProcIdle /\ MergeIdle /\ LogIdle /\ DashInit
NextDashboard == DashNext
SpecDashboard == InitDashboard /\ [][NextDashboard]_vars
====
